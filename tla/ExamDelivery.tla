----------------------------- MODULE ExamDelivery -----------------------------
(***************************************************************************)
(* What a machine gets of an exam and when: the phase gate in front of the *)
(* student routes, the envelope of a request with its nonce, the delivery  *)
(* of the sealed paper, the release of the exam key and the collection of  *)
(* code, against phase changes, initialisations and resets that go on      *)
(* between any two of their calls.  One request of the admin at a time;    *)
(* ExamLifecycle has several.                                              *)
(***************************************************************************)
EXTENDS Naturals, Sequences

CONSTANTS
  Messages,     \* requests the machine seals, each with a nonce of its own
  Endpoints,    \* the routes they go to
  Drift,        \* allowedDriftMs
  Grace,        \* submitGraceSeconds
  MaxTime,      \* bound: ticks
  MaxKeys,      \* bound: registrations of the machine, each with a fresh key
  MaxExams,     \* bound: initialisations
  MaxFaults,    \* bound: requests brought once more, of the admin that stop half-way, and restarts
  None

Delivery == {"INITIALIZED", "SETUP_FINISHED", "IN_PROGRESS"}
Seated == {"SETUP_FINISHED", "IN_PROGRESS"}
AnyExam == Delivery \union {"FINISHED"}

\* MATRIX: which student route is open in which phase.
Matrix == [languages |-> Delivery, config |-> Delivery, report |-> Delivery, register |-> Delivery,
           login |-> Seated, messages |-> AnyExam, key |-> {"IN_PROGRESS"}, code |-> {"IN_PROGRESS"}]
GraceAfterFinish == {"code"}

\* The calls of a handler behind the gate, in their order.
Calls == [languages |-> <<"auth", "languages", "phase", "row">>,
          config    |-> <<"auth", "paper", "phase", "row">>,
          report    |-> <<"auth", "report">>,
          key       |-> <<"aesKey", "envelope", "examKey">>,
          messages  |-> <<"session", "device", "user", "messages", "aesKey">>,
          code      |-> <<"session", "device", "user", "question", "store">>]

ASSUME EndpointsAssumption == Endpoints \subseteq DOMAIN Calls
ASSUME BoundsAssumption == {Drift, Grace, MaxTime, MaxKeys, MaxExams, MaxFaults} \subseteq Nat
ASSUME NoneAssumption == None \notin Nat

VARIABLES
  now,
  phase, changedAt,   \* exam_state, exam_state_changed_at
  examKey, paper,     \* exam_key and the prepared paper, by the exam they were made for; 0: none
  enrolled,           \* there are users
  todo,               \* what the admin's request has left to do
  row, bound,         \* the machine's registered key, 0 for none; its seat
  key, token,         \* the machine: its key, and the key its session token was signed with
  mail,               \* the requests the machine sealed
  nonces,             \* ReplayProtectionService: message -> when its nonce may be forgotten, or None
  req,                \* message -> its handler
  effect,             \* what a handler did that has just come to its end, or None
  past                \* history: what the properties ask about

exam == <<phase, changedAt, examKey, paper, enrolled, todo>>
machine == <<row, bound, key, token>>
vars == <<now, exam, machine, mail, nonces, req, effect, past>>

Phase == INSTANCE ExamPhases
Phases == {"UNINITIALIZED", "INITIALIZED", "SETUP_FINISHED", "IN_PROGRESS", "FINISHED"}
Times == 0..MaxTime
Exams == 0..MaxExams
Sealed == [endpoint : Endpoints, key : 1..MaxKeys, token : 0..MaxKeys, stamped : 0..(MaxTime + Drift)]
Over == [left |-> <<>>, held |-> 0, saw |-> 0, exam |-> 0]

TypeOK ==
  /\ now \in Times /\ phase \in Phases /\ changedAt \in Times
  /\ examKey \in Exams /\ paper \in Exams /\ enrolled \in BOOLEAN
  /\ row \in 0..MaxKeys /\ bound \in BOOLEAN /\ key \in 0..MaxKeys /\ token \in 0..MaxKeys
  /\ mail \in [Messages -> Sealed \union {None}]
  /\ \A m \in Messages :
       /\ nonces[m] \in (0..(MaxTime + Drift)) \union {None}
       /\ req[m].held \in 0..MaxKeys /\ req[m].saw \in Exams \union Times /\ req[m].exam \in Exams
  /\ past.issued \in Exams /\ past.started \in Exams /\ past.faults \in 0..MaxFaults

Init ==
  /\ now = 0 /\ phase = "UNINITIALIZED" /\ changedAt = 0
  /\ examKey = 0 /\ paper = 0 /\ enrolled = FALSE /\ todo = <<>>
  /\ row = 0 /\ bound = FALSE /\ key = 0 /\ token = 0
  /\ mail = [m \in Messages |-> None] /\ nonces = mail /\ req = [m \in Messages |-> Over]
  /\ effect = None
  /\ past = [issued |-> 0, started |-> 0, resetting |-> FALSE, strays |-> {}, faults |-> 0,
             arrived |-> {}, heard |-> mail]

--------------------------------------------------------------------------------
\* The admin's request: its calls, one at a time.
Asks(calls) ==
  /\ todo = <<>> /\ todo' = calls
  /\ UNCHANGED <<now, phase, changedAt, examKey, paper, enrolled, machine, mail, nonces, req>>

\* POST /admin/init, refused when somebody is enrolled.
Initializes ==
  /\ ~ enrolled /\ past.issued < MaxExams /\ past' = past
  /\ Asks(<<"enrol", "storeKey", "storePaper", "initialized", "stamp">>)

Advances == phase \in Delivery /\ past' = past /\ Asks(<<"next", "stamp">>)

\* POST /admin/init/reset: wipeAllData, then resetToUninitialized.
Resets ==
  /\ Asks(<<"wipe", "noKey", "noPaper", "uninitialized", "stamp">>)
  /\ past' = [past EXCEPT !.resetting = TRUE]

\* Each call writes one thing; changeState refuses every phase but the next.
Does(call, others) == todo # <<>> /\ Head(todo) = call /\ todo' = Tail(todo) /\ UNCHANGED others
Rest == <<now, key, token, mail, nonces, req>>
Here == <<machine, Rest>>

Enrols == Does("enrol", <<phase, changedAt, examKey, paper, Here>>) /\ enrolled' = TRUE
          /\ past' = [past EXCEPT !.issued = @ + 1]
StoresKey == Does("storeKey", <<phase, changedAt, paper, enrolled, past, Here>>) /\ examKey' = past.issued
StoresPaper == Does("storePaper", <<phase, changedAt, examKey, enrolled, past, Here>>) /\ paper' = past.issued
EntersInitialized ==
  /\ todo # <<>> /\ Head(todo) = "initialized"
  /\ IF phase = "UNINITIALIZED" THEN phase' = "INITIALIZED" /\ todo' = Tail(todo)
                                ELSE phase' = phase /\ todo' = <<>>
  /\ UNCHANGED <<changedAt, examKey, paper, enrolled, past, Here>>
EntersNext ==
  /\ Does("next", <<changedAt, examKey, paper, enrolled, Here>>)
  /\ phase' = Phase!NextPhase[phase]
  /\ past' = [past EXCEPT !.started = IF phase' = "IN_PROGRESS" THEN past.issued ELSE @]
Stamps ==
  /\ Does("stamp", <<phase, examKey, paper, enrolled, Here>>) /\ changedAt' = now
  /\ past' = [past EXCEPT !.resetting = @ /\ phase # "UNINITIALIZED"]
Wipes ==
  /\ Does("wipe", <<phase, changedAt, examKey, paper, past, Rest>>)
  /\ enrolled' = FALSE /\ row' = 0 /\ bound' = FALSE
ForgetsKey == Does("noKey", <<phase, changedAt, paper, enrolled, past, Here>>) /\ examKey' = 0
ForgetsPaper == Does("noPaper", <<phase, changedAt, examKey, enrolled, past, Here>>) /\ paper' = 0
EntersUninitialized ==
  Does("uninitialized", <<changedAt, examKey, paper, enrolled, past, Here>>) /\ phase' = "UNINITIALIZED"

\* One of its calls rejects.
Fails ==
  /\ todo # <<>> /\ past.faults < MaxFaults
  /\ todo' = <<>> /\ past' = [past EXCEPT !.faults = @ + 1]
  /\ UNCHANGED <<phase, changedAt, examKey, paper, enrolled, Here>>

\* The process starts anew: handlers end and the nonces it remembered are gone.
Restarts ==
  /\ past.faults < MaxFaults
  /\ todo # <<>> \/ \E m \in Messages : req[m] # Over \/ nonces[m] # None
  /\ todo' = <<>> /\ req' = [m \in Messages |-> Over] /\ nonces' = [m \in Messages |-> None]
  /\ past' = [past EXCEPT !.faults = @ + 1, !.heard = [m \in Messages |-> None]]
  /\ UNCHANGED <<now, phase, changedAt, examKey, paper, enrolled, machine, mail>>

Admin ==
  \/ Initializes \/ Advances \/ Resets
  \/ Enrols \/ StoresKey \/ StoresPaper \/ EntersInitialized \/ EntersNext \/ Stamps
  \/ Wipes \/ ForgetsKey \/ ForgetsPaper \/ EntersUninitialized \/ Fails \/ Restarts

--------------------------------------------------------------------------------
\* The machine.  It registers with a fresh key; during a reset it becomes a stray the wipe has missed.
Registers ==
  /\ phase \in Matrix.register /\ key < MaxKeys
  /\ key' = key + 1 /\ row' = key + 1 /\ token' = 0
  /\ past' = [past EXCEPT !.strays = IF past.resetting THEN @ \union {key + 1} ELSE @]
  /\ UNCHANGED <<now, exam, bound, mail, nonces, req>>

\* A student signs in at the machine (DeviceBinding has the steps of a login).
SignsIn ==
  /\ phase \in Matrix.login /\ key # 0 /\ row = key /\ enrolled
  /\ bound' = TRUE /\ token' = key
  /\ UNCHANGED <<now, exam, row, key, mail, nonces, req, past>>

\* It seals a request, by a clock that is right or ahead of the server's.
Seals(m, e, ahead) ==
  /\ mail[m] = None /\ key # 0
  /\ mail' = [mail EXCEPT ![m] = [endpoint |-> e, key |-> key, token |-> token, stamped |-> now + ahead]]
  /\ UNCHANGED <<now, exam, machine, nonces, req, past>>

Tick == now < MaxTime /\ now' = now + 1 /\ UNCHANGED <<exam, machine, mail, nonces, req, past>>

--------------------------------------------------------------------------------
\* (slip) the window is open after any change of the phase
EntryAfterAnyChange(e) ==
  CASE phase \in Matrix[e] -> Calls[e]
    [] phase # "UNINITIALIZED" /\ e \in GraceAfterFinish -> <<"since", "window">> \o Calls[e]
    [] OTHER -> <<>>

\* examPhaseMiddleware: what the gate lets a request do.
Entry(e) ==
  CASE phase \in Matrix[e] -> Calls[e]
    [] phase = "FINISHED" /\ e \in GraceAfterFinish -> <<"finished", "since", "window">> \o Calls[e]
    [] OTHER -> <<>>

\* The network brings a request, perhaps again.
Arrives(m) ==
  /\ mail[m] # None /\ req[m] = Over /\ (m \in past.arrived => past.faults < MaxFaults)
  /\ req' = [req EXCEPT ![m] = IF Entry(mail[m].endpoint) = <<>> THEN Over
                             ELSE [Over EXCEPT !.left = Entry(mail[m].endpoint), !.exam = past.issued]]
  /\ past' = [past EXCEPT !.arrived = @ \union {m}, !.faults = IF m \in past.arrived THEN @ + 1 ELSE @]
  /\ UNCHANGED <<now, exam, machine, mail, nonces>>

\* The handler of m makes its next call, which returns: it goes on, or ends with an error.
At(m, call) == req[m].left # <<>> /\ Head(req[m].left) = call
Next1(m) == [req[m] EXCEPT !.left = Tail(@)]
Turns(m, ok, next) == req' = [req EXCEPT ![m] = IF ok /\ next.left # <<>> THEN next ELSE Over]
Quiet == effect' = None /\ UNCHANGED <<now, exam, machine, mail>>
Silent == Quiet /\ UNCHANGED <<nonces, past>>

\* decryptAESGCM and verifySessionToken fail under any key but the one that sealed or signed.
Decrypts(m, k) == mail[m].key = k
Verifies(m, k) == mail[m].token = k

\* verifyAndSaveNonce
Near(m) == now <= mail[m].stamped + Drift /\ mail[m].stamped <= now + Drift
Fresh(m) == Near(m) /\ nonces[m] = None

\* (slip) a nonce is remembered for a moment only
RemembersBriefly(m) == nonces' = [nonces EXCEPT ![m] = now]
Remembers(m) == nonces' = [nonces EXCEPT ![m] = now + Drift]

SavesNonce(m, ok) ==
  IF ok THEN Remembers(m) /\ past' = [past EXCEPT !.heard[m] = now]
        ELSE UNCHANGED <<nonces, past>>

Forgets(m) ==
  /\ nonces[m] # None /\ nonces[m] <= now /\ nonces' = [nonces EXCEPT ![m] = None]
  /\ UNCHANGED <<now, exam, machine, mail, req, past>>

\* isWithinSubmitGrace reads the phase, the time of its change and the length of the window.
ChecksFinished(m) == At(m, "finished") /\ Turns(m, phase = "FINISHED", Next1(m)) /\ Silent
ReadsChange(m) == At(m, "since") /\ Turns(m, TRUE, [Next1(m) EXCEPT !.saw = changedAt]) /\ Silent
ChecksWindow(m) ==
  At(m, "window") /\ Turns(m, now <= req[m].saw + Grace, [Next1(m) EXCEPT !.saw = 0]) /\ Silent

\* authenticateRegisteredDevice: the row's key must open the envelope.
AuthenticatesDevice(m) ==
  /\ At(m, "auth") /\ LET ok == Decrypts(m, row) /\ Fresh(m) IN
     Turns(m, ok, [Next1(m) EXCEPT !.held = row]) /\ SavesNonce(m, ok)
  /\ Quiet

\* getAesKey
ReadsAesKey(m) == At(m, "aesKey") /\ Turns(m, row # 0, [Next1(m) EXCEPT !.held = row]) /\ Silent

\* decryptDevicePayload reads the row again; the token must be signed with the key read before.
OpensEnvelope(m) ==
  /\ At(m, "envelope") /\ LET opened == Decrypts(m, row) /\ Fresh(m) IN
     Turns(m, opened /\ Verifies(m, req[m].held), Next1(m)) /\ SavesNonce(m, opened)
  /\ Quiet

\* decryptAndVerifyDeviceSession: key and token, then the machine's row, then the student's.
OpensSession(m) ==
  At(m, "session") /\ Turns(m, Decrypts(m, row) /\ Verifies(m, row), Next1(m)) /\ Silent
ChecksDevice(m) == At(m, "device") /\ Turns(m, bound, Next1(m)) /\ Silent
ChecksUser(m) ==
  /\ At(m, "user") /\ LET ok == bound /\ Fresh(m) IN Turns(m, ok, Next1(m)) /\ SavesNonce(m, ok)
  /\ Quiet

ReadsPaper(m) == At(m, "paper") /\ Turns(m, paper # 0, [Next1(m) EXCEPT !.saw = paper]) /\ Silent
ChecksPhase(m) == At(m, "phase") /\ Turns(m, phase \in Matrix.config, Next1(m)) /\ Silent
\* What is read and written here is other modules' concern.
Works(m) ==
  (\E call \in {"languages", "report", "messages", "question"} : At(m, call)) /\ Turns(m, TRUE, Next1(m)) /\ Silent

\* The last call of a handler, and what it hands out or stores; strays and requests that began under
\* another exam are marked, for the properties.
Ends(m, call, ok, what, of) ==
  /\ At(m, call) /\ Turns(m, FALSE, Over)
  /\ effect' = IF ok THEN [what |-> what, of |-> of, exam |-> past.issued, started |-> past.started,
                           spans |-> req[m].exam # past.issued,
                           stray |-> past.resetting \/ mail[m].key \in past.strays]
                     ELSE None
  /\ UNCHANGED <<now, exam, machine, mail, nonces, past>>

\* (slip) the registration is not looked at again
SameRowAlways(m) == TRUE
SameRow(m) == row = req[m].held
HandsPaper(m) == Ends(m, "row", SameRow(m), mail[m].endpoint, req[m].saw)
HandsKey(m) == Ends(m, "examKey", examKey # 0, "key", examKey)
\* Submission.upsert: its foreign key wants the student enrolled.
StoresCode(m) == Ends(m, "store", enrolled, "code", past.issued)

Handles(m) ==
  \/ ChecksFinished(m) \/ ReadsChange(m) \/ ChecksWindow(m)
  \/ AuthenticatesDevice(m) \/ ReadsAesKey(m) \/ OpensEnvelope(m)
  \/ OpensSession(m) \/ ChecksDevice(m) \/ ChecksUser(m)
  \/ ReadsPaper(m) \/ ChecksPhase(m) \/ Works(m)
  \/ HandsPaper(m) \/ HandsKey(m) \/ StoresCode(m)

Next ==
  \/ /\ \/ Admin \/ Registers \/ SignsIn \/ Tick
        \/ \E m \in Messages :
             \/ \E e \in Endpoints, ahead \in 0..Drift : Seals(m, e, ahead)
             \/ Arrives(m) \/ Forgets(m)
     /\ effect' = None
  \/ \E m \in Messages : Handles(m)

Spec == Init /\ [][Next]_vars

--------------------------------------------------------------------------------
\* A paper handed out is that of the exam that is on when its handler ends, however long the handler
\* took and whatever reset and initialisation came between: a reset empties the registrations,
\* and the handler looks at phase and registration again last.  A machine that registers while a reset
\* is under way escapes that (exam.service.ts getSecureConfig, init.service.ts wipeAllData).
PaperIsOfExam ==
  effect # None /\ effect.what = "config" /\ ~ effect.stray => effect.of = effect.exam

\* Neither is the key of an exam handed out nor code taken for it before it has started, unless the
\* request was let in under an earlier exam or a reset has not been completed (exam-phase.middleware.ts,
\* exam.service.ts getExamKey).
NothingBeforeStart ==
  effect # None /\ effect.what \in {"key", "code"} /\ ~ effect.spans /\ ~ effect.stray
    => effect.of = effect.started

\* Every exchange is well-formed, and nothing of the exam leaves or enters before it starts.
GateHolds == TypeOK /\ NothingBeforeStart

\* The same request is accepted twice only if the machine's clock was not behind the first arrival,
\* or the process restarted between: as long as a stamp is near enough its nonce is remembered
\* (replay-protection.service.ts verifyAndSaveNonce).
AcceptedOnce ==
  [][\A m \in Messages : past.heard[m] # None /\ nonces[m] = None /\ nonces'[m] # None
       => mail[m].stamped >= past.heard[m]]_vars
================================================================================
