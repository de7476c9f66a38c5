----------------------------- MODULE ExamLifecycle -----------------------------
(***************************************************************************)
(* The life of one exam on the backend: configuration, initialisation, the *)
(* phase, the prepared paper with its key, and the global reset.  Every    *)
(* operation is an admin request (or a rehearsal, which calls the same     *)
(* services) made of several database calls.  Nothing locks them against   *)
(* each other, and any of them may stop half-way when a call rejects or    *)
(* the process dies.                                                       *)
(***************************************************************************)
EXTENDS Naturals

CONSTANTS
  Admins,       \* those who drive the exam, each one request at a time
  Configs,      \* exam configurations, their judger settings included
  Content,      \* configuration -> all of it but the judger settings
  Structures,   \* what restrictedUpdate keeps of a configuration: its roster and its shape
  Frozen,       \* configuration -> its structure
  Nobody,       \* the structure without students
  Default,      \* the empty exam stored before the first start
  None,         \* no row
  MaxKeys,      \* bound: no initialisation starts after this many exam keys
  MaxFailures   \* bound: requests or processes that stop half-way

ASSUME BoundsAssumption == MaxKeys \in Nat /\ MaxFailures \in Nat
ASSUME AdminsAssumption == Admins # {}
ASSUME ConfigsAssumption == None \notin Configs /\ Frozen \in [Configs -> Structures]
ASSUME ContentAssumption == \A c, d \in Configs : Content[c] = Content[d] => Frozen[c] = Frozen[d]
ASSUME DefaultAssumption == Default \in Configs /\ Frozen[Default] = Nobody
ASSUME NoneAssumption == None \notin [config : Configs, key : Nat]

VARIABLES
  phase, stamp,      \* exam_state; the phase exam_state_changed_at was last written for
  registration,      \* allow_device_registration
  switchedBy,        \* history: who wrote it last, a phase change or the operator
  config,            \* exam_config: initDatabase stores one and nothing deletes it
  tuned,             \* history: judger settings were saved after the paper was made
  users,             \* what each committed initialisation enrolled, empty as after a wipe
  key,               \* exam_key, 0 for none
  meta, cipher,      \* the two rows of the prepared paper
  issued,            \* exam keys generated so far
  req,               \* admin -> the request under way
  failures,
  misread            \* history: the admins whose latest reading of the phase was rejected

settings == <<phase, stamp, registration, switchedBy, config, tuned, key, meta, cipher>>
faults == <<failures, misread>>
vars == <<settings, users, issued, req, faults>>

--------------------------------------------------------------------------------
NextPhase == [UNINITIALIZED |-> "INITIALIZED", INITIALIZED |-> "SETUP_FINISHED",
              SETUP_FINISHED |-> "IN_PROGRESS", IN_PROGRESS |-> "FINISHED"]
Phases == {"UNINITIALIZED", "INITIALIZED", "SETUP_FINISHED", "IN_PROGRESS", "FINISHED"}
ChangePcs == {"readPhase", "check", "persist", "stamp", "switch"}
InitPcs == {"initRead", "initCommit", "initKey", "initPaper"}
ResetPcs == {"resetKey", "resetMeta", "resetCipher"}
SavePcs == {"saveTuned", "saveConfig", "saveKey", "saveMeta", "savePaper"}

\* A request: the call it is about to make, the phase it moves to, the configuration it read or was
\* sent, the key it generated or read, the key wrapped in the meta it read.
Requests == [at : {"idle"} \union ChangePcs \union InitPcs \union ResetPcs \union SavePcs,
             target : Phases, draft : Configs \union {None}, key : Nat, wraps : Nat]
Idle == [at |-> "idle", target |-> "UNINITIALIZED", draft |-> None, key |-> 0, wraps |-> 0]
Halves == {None} \union [config : Configs, key : Nat]

TypeOK ==
  /\ phase \in Phases /\ stamp \in Phases
  /\ registration \in BOOLEAN /\ switchedBy \in {"phase", "operator"}
  /\ config \in Configs /\ tuned \in BOOLEAN
  /\ users \subseteq Structures
  /\ key \in Nat /\ meta \in Halves /\ cipher \in Halves
  /\ issued \in Nat
  /\ req \in [Admins -> Requests]
  /\ failures \in 0..MaxFailures /\ misread \subseteq Admins

Init ==
  /\ phase = "UNINITIALIZED" /\ stamp = "UNINITIALIZED"
  /\ registration = FALSE /\ switchedBy = "phase"
  /\ config = Default /\ tuned = FALSE /\ users = {}
  /\ key = 0 /\ meta = None /\ cipher = None
  /\ issued = 0
  /\ req = [a \in Admins |-> Idle]
  /\ failures = 0 /\ misread = {}

\* The request of a moves from one call to the next, or is over.
Moves(a, place, next) == req[a].at = place /\ req' = [req EXCEPT ![a] = next]
To(a, place) == [req[a] EXCEPT !.at = place]
Asks(place, next) == [Idle EXCEPT !.at = place, !.target = next]
Drafts(place, c) == [Idle EXCEPT !.at = place, !.draft = c]
Recalls(place, k) == [Idle EXCEPT !.at = place, !.key = k]
Holds(a, place, k) == [req[a] EXCEPT !.at = place, !.key = k]
Wraps(a, place, k) == [req[a] EXCEPT !.at = place, !.wraps = k]

--------------------------------------------------------------------------------
\* (slip) the key and the paper are not asked for
NothingMissingButPaper == users # {}
\* ExamStateService.changeState.  What must exist before INITIALIZED may be entered:
NothingMissing == users # {} /\ key # 0 /\ meta # None /\ cipher # None

\* (slip) any phase may be asked for
AdvanceAnywhere(a) ==
  /\ \E next \in Phases \ {"UNINITIALIZED"} :
       Moves(a, "idle", Asks("persist", next))
  /\ UNCHANGED <<settings, users, issued, faults>>

\* POST /admin/exam-state: only the phase that follows the one just read is accepted.
Advance(a) ==
  /\ \/ /\ phase = "UNINITIALIZED"
        /\ Moves(a, "idle", Asks("check", NextPhase[phase]))
     \/ /\ phase \in DOMAIN NextPhase \ {"UNINITIALIZED"}
        /\ Moves(a, "idle", Asks("persist", NextPhase[phase]))
  /\ misread' = misread \ {a}
  /\ UNCHANGED <<settings, users, issued, failures>>

\* The same read at the end of an initialisation, which asks for INITIALIZED.
ReadsPhase(a) ==
  /\ \/ /\ phase = "UNINITIALIZED"
        /\ Moves(a, "readPhase", Asks("check", "INITIALIZED"))
     \/ phase # "UNINITIALIZED" /\ Moves(a, "readPhase", Idle)
  /\ misread' = misread \ {a}
  /\ UNCHANGED <<settings, users, issued, failures>>

\* getCurrentState takes a rejected read for UNINITIALIZED, and changeState goes on with that.
MisreadsPhase(a) ==
  /\ phase # "UNINITIALIZED"
  /\ \E place \in {"idle", "readPhase"} : Moves(a, place, Asks("check", "INITIALIZED"))
  /\ misread' = misread \union {a}
  /\ failures < MaxFailures /\ failures' = failures + 1
  /\ UNCHANGED <<settings, users, issued>>

ChecksPreconditions(a) ==
  /\ \/ NothingMissing /\ Moves(a, "check", To(a, "persist"))
     \/ ~ NothingMissing /\ Moves(a, "check", Idle)
  /\ UNCHANGED <<settings, users, issued, faults>>

\* (slip) the time of the change is not written
PersistsPhaseUnstamped(a) ==
  /\ Moves(a, "persist", To(a, "switch"))
  /\ phase' = req[a].target
  /\ UNCHANGED <<stamp, registration, switchedBy, config, tuned, key, meta, cipher>>
  /\ UNCHANGED <<users, issued, faults>>

\* persistState, first write.
PersistsPhase(a) ==
  /\ Moves(a, "persist", To(a, "stamp"))
  /\ phase' = req[a].target
  /\ UNCHANGED <<stamp, registration, switchedBy, config, tuned, key, meta, cipher>>
  /\ UNCHANGED <<users, issued, faults>>

\* (slip) entering SETUP_FINISHED leaves the switch alone
StampsPhaseOnly(a) ==
  /\ \/ /\ req[a].target \in {"UNINITIALIZED", "INITIALIZED"}
        /\ Moves(a, "stamp", To(a, "switch"))
     \/ /\ req[a].target \notin {"UNINITIALIZED", "INITIALIZED"}
        /\ Moves(a, "stamp", Idle)
  /\ stamp' = req[a].target
  /\ UNCHANGED <<phase, registration, switchedBy, config, tuned, key, meta, cipher>>
  /\ UNCHANGED <<users, issued, faults>>

\* Second write: the time of the change, which the submission grace period counts from.
StampsPhase(a) ==
  /\ \/ /\ req[a].target \in {"UNINITIALIZED", "INITIALIZED", "SETUP_FINISHED"}
        /\ Moves(a, "stamp", To(a, "switch"))
     \/ /\ req[a].target \notin {"UNINITIALIZED", "INITIALIZED", "SETUP_FINISHED"}
        /\ Moves(a, "stamp", Idle)
  /\ stamp' = req[a].target
  /\ UNCHANGED <<phase, registration, switchedBy, config, tuned, key, meta, cipher>>
  /\ UNCHANGED <<users, issued, faults>>

SwitchesRegistration(a) ==
  /\ Moves(a, "switch", Idle)
  /\ registration' = (req[a].target = "INITIALIZED") /\ switchedBy' = "phase"
  /\ UNCHANGED <<phase, stamp, config, tuned, key, meta, cipher>>
  /\ UNCHANGED <<users, issued, faults>>

\* The connection settings: the operator opens or closes registration by hand.
SetsRegistration(a, open) ==
  /\ req[a].at = "idle"
  /\ registration' = open /\ switchedBy' = "operator"
  /\ UNCHANGED <<phase, stamp, config, tuned, key, meta, cipher>>
  /\ UNCHANGED <<users, issued, req, faults>>

--------------------------------------------------------------------------------
\* POST /admin/init: refused when someone is enrolled, then performInitialization.
StartsInit(a) ==
  /\ users = {} /\ issued < MaxKeys
  /\ Moves(a, "idle", To(a, "initRead"))
  /\ UNCHANGED <<settings, users, issued, faults>>

ReadsConfig(a) ==
  /\ Moves(a, "initRead", Drafts("initCommit", config))
  /\ UNCHANGED <<settings, users, issued, faults>>

Roster(c) == {Frozen[c]} \ {Nobody}

\* The transaction that enrols the roster, if there is anyone in it.  prepare() then generates the
\* exam key, with no await between.
CommitsUsers(a) ==
  /\ req[a].at = "initCommit" /\ Roster(req[a].draft) \intersect users = {}
  /\ users' = users \union Roster(req[a].draft)
  /\ issued' = issued + 1
  /\ Moves(a, "initCommit", Holds(a, "initKey", issued + 1))
  /\ UNCHANGED <<settings, faults>>

\* Enrolling a student twice breaks a unique key; two rosters may share a student.
RollsBack(a) ==
  /\ Moves(a, "initCommit", Idle)
  /\ users # {} /\ Roster(req[a].draft) # {}
  /\ UNCHANGED <<settings, users, issued, faults>>

EndsTransaction(a) == \E clash \in BOOLEAN : IF clash THEN RollsBack(a) ELSE CommitsUsers(a)

StoresKey(a) ==
  /\ Moves(a, "initKey", To(a, "initPaper"))
  /\ key' = req[a].key
  /\ UNCHANGED <<phase, stamp, registration, switchedBy, config, tuned, meta, cipher>>
  /\ UNCHANGED <<users, issued, faults>>

\* (slip) a reissue amends the ciphertext and not the meta half
StoresCipher(a, wraps) ==
  /\ meta' = IF meta = None THEN [config |-> req[a].draft, key |-> wraps] ELSE meta
  /\ cipher' = [config |-> req[a].draft, key |-> req[a].key] /\ tuned' = FALSE
  /\ UNCHANGED <<phase, stamp, registration, switchedBy, config, key>>
  /\ UNCHANGED <<users, issued, faults>>

\* buildMeta: what a machine may read before the exam, with the wrapped key it was given ...
Meta(a, wraps) == [config |-> req[a].draft, key |-> wraps]
\* ... and buildSecret with encryptSecret: the rest of the same configuration, under the exam key.
Cipher(a) == [config |-> req[a].draft, key |-> req[a].key]

\* savePreparedPaper: both halves in one SQL statement.
StoresPaper(a, wraps) ==
  /\ meta' = Meta(a, wraps)
  /\ cipher' = Cipher(a) /\ tuned' = FALSE
  /\ UNCHANGED <<phase, stamp, registration, switchedBy, config, key>>
  /\ UNCHANGED <<users, issued, faults>>

StoresFirstPaper(a) == Moves(a, "initPaper", To(a, "readPhase")) /\ StoresPaper(a, req[a].key)

--------------------------------------------------------------------------------
\* restrictedUpdate: roster, start password, sections, puzzles and numbers of test cases stay.
KeepsStructure(c) == Frozen[c] = Frozen[config]

\* (slip) an enrolled exam takes any configuration
StartsSaveUnchecked(a, c) ==
  /\ Moves(a, "idle", Drafts("saveConfig", c))
  /\ UNCHANGED <<settings, users, issued, faults>>

\* POST or PUT /admin/config: any configuration before somebody is enrolled, afterwards PUT only.
StartsSave(a, c) ==
  /\ users # {} => KeepsStructure(c)
  /\ Moves(a, "idle", Drafts("saveConfig", c))
  /\ UNCHANGED <<settings, users, issued, faults>>

\* (slip) the paper is not reissued
SavesConfigOnly(a) ==
  /\ Moves(a, "saveConfig", Idle)
  /\ config' = req[a].draft
  /\ UNCHANGED <<phase, stamp, registration, switchedBy, tuned, key, meta, cipher>>
  /\ UNCHANGED <<users, issued, faults>>

SavesConfig(a) ==
  /\ Moves(a, "saveConfig", To(a, "saveKey"))
  /\ config' = req[a].draft
  /\ UNCHANGED <<phase, stamp, registration, switchedBy, tuned, key, meta, cipher>>
  /\ UNCHANGED <<users, issued, faults>>

\* reissuePreparedPaper: the amended paper under the key the machines already hold.
ReadsKey(a) ==
  /\ \/ key = 0 /\ Moves(a, "saveKey", Idle)
     \/ key # 0 /\ Moves(a, "saveKey", Holds(a, "saveMeta", key))
  /\ UNCHANGED <<settings, users, issued, faults>>

ReadsMeta(a) ==
  /\ \/ meta = None /\ Moves(a, "saveMeta", Idle)
     \/ meta # None /\ Moves(a, "saveMeta", Wraps(a, "savePaper", meta.key))
  /\ UNCHANGED <<settings, users, issued, faults>>

ReissuesPaper(a) == Moves(a, "savePaper", Idle) /\ StoresPaper(a, req[a].wraps)

\* updateSettings: what was read goes back with other judger settings, and no paper is reissued.
StartsTuning(a) ==
  /\ \E c \in Configs : Content[c] = Content[config] /\ Moves(a, "idle", Drafts("saveTuned", c))
  /\ UNCHANGED <<settings, users, issued, faults>>

SavesTuned(a) ==
  /\ Moves(a, "saveTuned", Idle)
  /\ config' = req[a].draft /\ tuned' = TRUE
  /\ UNCHANGED <<phase, stamp, registration, switchedBy, key, meta, cipher>>
  /\ UNCHANGED <<users, issued, faults>>

--------------------------------------------------------------------------------
\* POST /admin/init/reset: one transaction empties the tables, then row by row the settings.
\* The key field is history here: the key of the previous paper, which this reset must end.
OldKey == IF cipher = None THEN 0 ELSE cipher.key
Wipes(a) ==
  /\ Moves(a, "idle", Recalls("resetKey", OldKey))
  /\ users' = {}
  /\ UNCHANGED <<settings, issued, faults>>

PurgesKey(a) ==
  /\ Moves(a, "resetKey", To(a, "resetMeta")) /\ key' = 0
  /\ UNCHANGED <<phase, stamp, registration, switchedBy, config, tuned, meta, cipher>>
  /\ UNCHANGED <<users, issued, faults>>

\* (slip) the ciphertext is forgotten
PurgesMetaOnly(a) ==
  /\ Moves(a, "resetMeta", To(a, "persist")) /\ meta' = None
  /\ UNCHANGED <<phase, stamp, registration, switchedBy, config, tuned, key, cipher>>
  /\ UNCHANGED <<users, issued, faults>>

PurgesMeta(a) ==
  /\ Moves(a, "resetMeta", To(a, "resetCipher")) /\ meta' = None
  /\ UNCHANGED <<phase, stamp, registration, switchedBy, config, tuned, key, cipher>>
  /\ UNCHANGED <<users, issued, faults>>

PurgesCipher(a) ==
  /\ Moves(a, "resetCipher", To(a, "persist")) /\ cipher' = None
  /\ UNCHANGED <<phase, stamp, registration, switchedBy, config, tuned, key, meta>>
  /\ UNCHANGED <<users, issued, faults>>

--------------------------------------------------------------------------------
\* A request stops half-way: one of its database calls rejects.
Fails(a) ==
  /\ req[a].at # "idle" /\ req' = [req EXCEPT ![a] = Idle]
  /\ failures < MaxFailures /\ failures' = failures + 1
  /\ UNCHANGED <<settings, users, issued, misread>>

\* The process dies and every request with it.
Crash ==
  /\ \E a \in Admins : req[a].at # "idle"
  /\ req' = [a \in Admins |-> Idle]
  /\ failures < MaxFailures /\ failures' = failures + 1
  /\ UNCHANGED <<settings, users, issued, misread>>

ChangesPhase(a) ==
  \/ Advance(a) \/ ReadsPhase(a) \/ MisreadsPhase(a) \/ ChecksPreconditions(a)
  \/ PersistsPhase(a) \/ StampsPhase(a) \/ SwitchesRegistration(a)
Initializes(a) ==
  \/ StartsInit(a) \/ ReadsConfig(a) \/ EndsTransaction(a) \/ StoresKey(a)
  \/ StoresFirstPaper(a)
Saves(a) ==
  \/ \E c \in Configs : StartsSave(a, c)
  \/ SavesConfig(a) \/ ReadsKey(a) \/ ReadsMeta(a) \/ ReissuesPaper(a)
  \/ StartsTuning(a) \/ SavesTuned(a)
Resets(a) == Wipes(a) \/ PurgesKey(a) \/ PurgesMeta(a) \/ PurgesCipher(a)

Next ==
  \/ \E a \in Admins :
       \/ ChangesPhase(a) \/ Initializes(a) \/ Saves(a) \/ Resets(a) \/ Fails(a)
       \/ \E open \in BOOLEAN : SetsRegistration(a, open)
  \/ Crash

Spec == Init /\ [][Next]_vars

--------------------------------------------------------------------------------
\* One driver at a time: what most of the code below takes for granted.
SingleAdmin == \A a, b \in Admins : a = b
Quiet == \A a \in Admins : req[a].at = "idle"

\* Who is enrolled is who the stored configuration lists, whatever is uploaded or fails when:
\* the paper, the scoreboard and the login all read their half of it.
RosterIsConfigured == users # {} => users = {Frozen[config]}

\* A phase past UNINITIALIZED with students enrolled always has a key and both halves of a paper,
\* even when one request or process stopped at the worst moment; if nothing failed, the key and its
\* wrapped copy are those of the paper.
EnrolledExamIsReady ==
  failures <= 1 /\ Quiet /\ users # {} /\ phase # "UNINITIALIZED" =>
    /\ key # 0 /\ meta # None /\ cipher # None
    /\ failures = 0 => meta.key = key /\ cipher.key = key

\* If nothing failed, the questions and limits handed out are those the judge will use, whatever was
\* uploaded since, and so are the judger settings a machine checks itself with, unless they were
\* saved on their own after the paper was made.
PaperIsCurrent ==
  failures = 0 /\ Quiet /\ cipher # None =>
    /\ Content[cipher.config] = Content[config]
    /\ cipher.config = config \/ tuned

\* The two halves of a paper are never of two configurations, however requests overlap or stop
\* half-way.
PaperIsWhole == meta # None /\ cipher # None => meta.config = cipher.config

\* The paper is of one configuration, and if nothing failed of the one the judge will use, save for
\* judger settings that came later.
PaperIsSound == PaperIsWhole /\ PaperIsCurrent

\* Whoever is enrolled is of the stored configuration and finds a paper and its key.
EnrolmentIsSound == RosterIsConfigured /\ EnrolledExamIsReady

\* If nothing failed and the operator did not decide otherwise, registration is open in INITIALIZED
\* and only there.
RegistrationFollowsPhase ==
  failures = 0 /\ Quiet /\ switchedBy = "phase" => (registration <=> phase = "INITIALIZED")

\* If nothing failed, the stored time is that of the stored phase: the submission grace period counts
\* from the moment the exam became FINISHED and not from an earlier one.
StampIsOfPhase == failures = 0 /\ Quiet => stamp = phase

\* Whatever goes with the phase is in step with it: the registration switch and the time stamp.
PhaseIsInStep == RegistrationFollowsPhase /\ StampIsOfPhase

\* When a reset is about to close registration and announce itself, no key, wrapped key, paper or
\* student is left, whatever an earlier failure had left half-done.
Resetting(a) == req[a].at = "switch" /\ req[a].target = "UNINITIALIZED"
ResetLeavesNothing ==
  \A a \in Admins : Resetting(a) =>
    key = 0 /\ meta = None /\ cipher = None /\ users = {} /\ phase = "UNINITIALIZED"

\* The phase is the one EXAM-LIFECYCLE.md promises.
Lifecycle == INSTANCE ExamPhases
PhaseMovesForward == Lifecycle!Spec

\* However requests fail, the phase takes one step forward or is reset; the only other step is that of
\* a change whose own reading of the phase was rejected, and it leads to INITIALIZED with the roster,
\* the key and the paper of the exam in place.
OnlyMisreadsTurnBack ==
  [][\/ Lifecycle!Advance \/ Lifecycle!Reset
     \/ \E a \in misread : req[a].at = "persist" /\ NothingMissing /\ phase' = "INITIALIZED"]_phase
================================================================================
