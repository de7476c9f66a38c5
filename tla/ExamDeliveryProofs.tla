--------------------------- MODULE ExamDeliveryProofs ---------------------------
(***************************************************************************)
(* The safety properties of ExamDelivery, for any number of requests,      *)
(* registrations, exams and faults, any drift and any window of grace.     *)
(* The invariant says what each call of the admin's request has already    *)
(* done, what a registration that is no stray says of the exam, and what a *)
(* handler in the middle of its calls still knows.                         *)
(***************************************************************************)
EXTENDS ExamDelivery, TLAPS, SequenceTheorems

--------------------------------------------------------------------------------
(* The invariant *)

Initialization == <<"enrol", "storeKey", "storePaper", "initialized", "stamp">>
Reset == <<"wipe", "noKey", "noPaper", "uninitialized", "stamp">>

\* What the admin's request has done when it comes to each of its calls.
AdminIsSound ==
  \/ todo = <<>>
  \/ todo = Initialization /\ ~ enrolled /\ past.issued < MaxExams
  \/ todo = <<"storeKey", "storePaper", "initialized", "stamp">> /\ enrolled
  \/ todo = <<"storePaper", "initialized", "stamp">> /\ enrolled /\ examKey = past.issued
  \/ todo = <<"initialized", "stamp">> /\ enrolled /\ examKey = past.issued /\ paper = past.issued
  \/ todo = <<"next", "stamp">> /\ phase \in Delivery
  \/ todo = <<"stamp">> /\ (phase = "UNINITIALIZED" => ~ enrolled /\ examKey = 0 /\ paper = 0)
  \/ todo = Reset /\ past.resetting
  \/ todo = <<"noKey", "noPaper", "uninitialized", "stamp">> /\ past.resetting /\ ~ enrolled
  \/ todo = <<"noPaper", "uninitialized", "stamp">> /\ past.resetting /\ ~ enrolled /\ examKey = 0
  \/ todo = <<"uninitialized", "stamp">> /\ past.resetting /\ ~ enrolled /\ examKey = 0 /\ paper = 0

\* Unless a reset is open, key and paper are of the exam that is on, and an exam that is on is complete.
ExamIsWhole ==
  ~ past.resetting =>
    /\ examKey \in {0, past.issued} /\ paper \in {0, past.issued}
    /\ ~ enrolled => examKey = 0 /\ paper = 0 /\ phase = "UNINITIALIZED"
    /\ phase # "UNINITIALIZED" => enrolled /\ examKey = past.issued /\ paper = past.issued
    /\ phase \in {"IN_PROGRESS", "FINISHED"} => past.started = past.issued

\* A registration no reset has missed is of the exam that is on.
RowIsOfExam ==
  /\ row # 0 => row = key
  /\ row # 0 /\ row \notin past.strays => enrolled /\ paper = past.issued

\* A nonce is remembered for one drift from when it was heard, and no shorter.
NoncesAreKept ==
  \A m \in Messages :
    /\ nonces[m] # None => past.heard[m] # None /\ nonces[m] = past.heard[m] + Drift
    /\ past.heard[m] # None /\ nonces[m] = None => past.heard[m] + Drift <= now

CallNames == {"auth", "languages", "phase", "row", "paper", "report", "aesKey", "envelope", "examKey",
              "session", "device", "user", "messages", "question", "store", "finished", "since", "window"}
Has(left, call) == \E i \in 1..Len(left) : left[i] = call

\* Where the delivery of the paper stands.
ToRow(left) == left = <<"row">>
ToPhase(left) == left = <<"phase", "row">>
ToPaper(left) == left = <<"paper", "phase", "row">>
ToAuth(left) == left = <<"auth", "paper", "phase", "row">>

\* The delivery of the paper holds the key its request was sealed with, and a paper that is that of the
\* exam unless the registration has changed.
DeliveryIsSound(r, sealed) ==
  /\ ToAuth(r.left) \/ ToPaper(r.left) \/ ToPhase(r.left) \/ ToRow(r.left)
  /\ ~ ToAuth(r.left) => r.held = sealed
  /\ (ToPhase(r.left) \/ ToRow(r.left)) /\ row = r.held /\ row \notin past.strays => r.saw = past.issued

\* Who may still get the key or store code was let in when the exam had started, unless that exam is
\* being reset or gone.
OpenedByStart(r) ==
  (Has(r.left, "examKey") \/ Has(r.left, "store")) /\ r.exam = past.issued
    => past.started = past.issued \/ past.resetting \/ (~ enrolled /\ examKey = 0)

HandlerIsSound(m) ==
  req[m].left # <<>> =>
    /\ mail[m] # None
    /\ mail[m].endpoint = "config" => DeliveryIsSound(req[m], mail[m].key)
    /\ mail[m].endpoint \in {"key", "code"} => ~ Has(req[m].left, "row")
    /\ OpenedByStart(req[m])

Handlers == [left : Seq(CallNames), held : 0..MaxKeys, saw : Exams \union Times, exam : Exams]
Pasts == [issued : Exams, started : Exams, resetting : BOOLEAN, strays : SUBSET (1..MaxKeys),
          faults : 0..MaxFaults, arrived : SUBSET Messages, heard : [Messages -> Times \union {None}]]

Typed ==
  /\ TypeOK
  /\ nonces \in [Messages -> (0..(MaxTime + Drift)) \union {None}]
  /\ req \in [Messages -> Handlers] /\ past \in Pasts
  /\ \A m \in Messages : req[m].exam <= past.issued /\ (mail[m] # None => mail[m].key <= key)
  /\ past.strays \subseteq 1..key

EffectIsSound == PaperIsOfExam /\ NothingBeforeStart

IInv ==
  /\ Typed /\ AdminIsSound /\ ExamIsWhole /\ RowIsOfExam /\ NoncesAreKept
  /\ \A m \in Messages : HandlerIsSound(m)
  /\ EffectIsSound

--------------------------------------------------------------------------------
(* Sequences of calls *)

LEMMA Advancing ==
  ASSUME NEW left \in Seq(CallNames), left # <<>>
  PROVE  /\ Tail(left) \in Seq(CallNames)
         /\ \A c : Head(left) = c => Has(left, c)
         /\ \A c : Has(Tail(left), c) => Has(left, c)
  <1>1. Len(left) \in Nat \ {0} /\ Tail(left) \in Seq(CallNames) /\ Len(Tail(left)) = Len(left) - 1
        /\ \A i \in 1..Len(Tail(left)) : Tail(left)[i] = left[i + 1]
    BY EmptySeq, HeadTailProperties
  <1>2. Head(left) = left[1]
    BY <1>1
  <1> QED BY <1>1, <1>2 DEF Has

LEMMA Concatenating ==
  ASSUME NEW S, NEW s \in Seq(S), NEW t \in Seq(S), NEW c, Has(s \o t, c)
  PROVE  Has(s, c) \/ Has(t, c)
  <1>1. PICK i \in 1..(Len(s) + Len(t)) : (s \o t)[i] = c
    BY ConcatProperties DEF Has
  <1>2. Len(s) \in Nat /\ Len(t) \in Nat
    BY LenProperties
  <1>3. CASE i <= Len(s)
    BY <1>1, <1>2, <1>3, ConcatProperties DEF Has
  <1>4. CASE ~ (i <= Len(s))
    <2>1. i - Len(s) \in 1..Len(t) /\ t[i - Len(s)] = c
      BY <1>1, <1>2, <1>4, ConcatProperties
    <2> QED BY <2>1 DEF Has
  <1> QED BY <1>3, <1>4

LEMMA Delivering ==
  ASSUME NEW left
  PROVE  /\ ToAuth(left) => left # <<>> /\ Head(left) = "auth" /\ ToPaper(Tail(left))
         /\ ToPaper(left) => left # <<>> /\ Head(left) = "paper" /\ ToPhase(Tail(left))
         /\ ToPhase(left) => left # <<>> /\ Head(left) = "phase" /\ ToRow(Tail(left))
         /\ ToRow(left) => left # <<>> /\ Head(left) = "row" /\ Tail(left) = <<>>
  <1>1. ToAuth(left) => left # <<>> /\ Head(left) = "auth"
    BY DEF ToAuth
  <1>2. ToAuth(left) => ToPaper(Tail(left))
    BY DEF ToAuth, ToPaper
  <1>3. ToPaper(left) => left # <<>> /\ Head(left) = "paper"
    BY DEF ToPaper
  <1>4. ToPaper(left) => ToPhase(Tail(left))
    BY DEF ToPaper, ToPhase
  <1>5. ToPhase(left) => left # <<>> /\ Head(left) = "phase"
    BY DEF ToPhase
  <1>6. ToPhase(left) => ToRow(Tail(left))
    BY DEF ToPhase, ToRow
  <1>7. ToRow(left) => left # <<>> /\ Head(left) = "row"
    BY DEF ToRow
  <1>8. ToRow(left) => Tail(left) = <<>>
    BY DEF ToRow
  <1> QED BY <1>1, <1>2, <1>3, <1>4, <1>5, <1>6, <1>7, <1>8

\* What the gate lets a request do: only key and code come near the exam, and they wait for its start.
LEMMA Entrances ==
  ASSUME NEW e \in Endpoints, phase \in Phases
  PROVE  /\ Entry(e) \in Seq(CallNames)
         /\ e = "config" /\ Entry(e) # <<>> => ToAuth(Entry(e))
         /\ e \in {"key", "code"} => ~ Has(Entry(e), "row")
         /\ Has(Entry(e), "examKey") \/ Has(Entry(e), "store") => phase \in {"IN_PROGRESS", "FINISHED"}
  <1> DEFINE Window == <<"finished", "since", "window">>
             Code == <<"session", "device", "user", "question", "store">>
  <1>1. e \in {"languages", "config", "report", "key", "messages", "code"}
    BY EndpointsAssumption DEF Calls
  <1>2. <<>> \in Seq(CallNames) /\ \A c : ~ Has(<<>>, c)
    BY EmptySeq DEF Has
  <1>3. CASE e = "languages"
    <2>1. Calls[e] \in Seq(CallNames) /\ ~ Has(Calls[e], "examKey") /\ ~ Has(Calls[e], "store")
      BY <1>3 DEF Calls, CallNames, Has
    <2>2. Entry(e) \in {Calls[e], <<>>}
      BY <1>3 DEF Entry, GraceAfterFinish
    <2> QED BY <1>2, <1>3, <2>1, <2>2
  <1>4. CASE e = "config"
    <2>1. Calls[e] \in Seq(CallNames) /\ ~ Has(Calls[e], "examKey") /\ ~ Has(Calls[e], "store")
      BY <1>4 DEF Calls, CallNames, Has
    <2>2. Entry(e) \in {Calls[e], <<>>}
      BY <1>4 DEF Entry, GraceAfterFinish
    <2>3. ToAuth(Calls[e])
      BY <1>4 DEF Calls, ToAuth
    <2> QED BY <1>2, <1>4, <2>1, <2>2, <2>3
  <1>5. CASE e = "report"
    <2>1. Calls[e] \in Seq(CallNames) /\ ~ Has(Calls[e], "examKey") /\ ~ Has(Calls[e], "store")
      BY <1>5 DEF Calls, CallNames, Has
    <2>2. Entry(e) \in {Calls[e], <<>>}
      BY <1>5 DEF Entry, GraceAfterFinish
    <2> QED BY <1>2, <1>5, <2>1, <2>2
  <1>6. CASE e = "messages"
    <2>1. Calls[e] \in Seq(CallNames) /\ ~ Has(Calls[e], "examKey") /\ ~ Has(Calls[e], "store")
      BY <1>6 DEF Calls, CallNames, Has
    <2>2. Entry(e) \in {Calls[e], <<>>}
      BY <1>6 DEF Entry, GraceAfterFinish
    <2> QED BY <1>2, <1>6, <2>1, <2>2
  <1>7. CASE e = "key"
    <2>1. Calls[e] \in Seq(CallNames) /\ ~ Has(Calls[e], "row")
      BY <1>7 DEF Calls, CallNames, Has
    <2>2. Entry(e) = IF phase = "IN_PROGRESS" THEN Calls[e] ELSE <<>>
      BY <1>7 DEF Entry, Matrix, GraceAfterFinish
    <2> QED BY <1>2, <1>7, <2>1, <2>2
  <1>8. CASE e = "code"
    <2>1. Code \in Seq(CallNames) /\ ~ Has(Code, "row")
      BY DEF CallNames, Has
    <2>2. Window \in Seq(CallNames) /\ ~ Has(Window, "row")
      BY DEF CallNames, Has
    <2>3. Window \o Code \in Seq(CallNames)
      BY <2>1, <2>2, ConcatProperties
    <2>5. ~ Has(Window \o Code, "row")
      BY <2>1, <2>2, Concatenating
    <2>6. Calls[e] = Code
      BY <1>8 DEF Calls
    <2>7. Entry(e) = IF phase = "IN_PROGRESS" THEN Calls[e]
                     ELSE IF phase = "FINISHED" THEN Window \o Calls[e] ELSE <<>>
      BY <1>8 DEF Entry, Matrix, GraceAfterFinish
    <2> HIDE DEF Window, Code
    <2> QED BY <1>2, <1>8, <2>1, <2>3, <2>5, <2>6, <2>7
  <1> QED BY <1>1, <1>3, <1>4, <1>5, <1>6, <1>7, <1>8

\* What the admin's request has done when it comes to a call, and what is left after it.
LEMMA AdminAt ==
  ASSUME AdminIsSound, todo # <<>>
  PROVE  /\ Head(todo) = "enrol" =>
              ~ enrolled /\ past.issued < MaxExams
              /\ Tail(todo) = <<"storeKey", "storePaper", "initialized", "stamp">>
         /\ Head(todo) = "storeKey" =>
              enrolled /\ Tail(todo) = <<"storePaper", "initialized", "stamp">>
         /\ Head(todo) = "storePaper" =>
              enrolled /\ examKey = past.issued /\ Tail(todo) = <<"initialized", "stamp">>
         /\ Head(todo) = "initialized" =>
              enrolled /\ examKey = past.issued /\ paper = past.issued /\ Tail(todo) = <<"stamp">>
         /\ Head(todo) = "next" => phase \in Delivery /\ Tail(todo) = <<"stamp">>
         /\ Head(todo) = "stamp" =>
              (phase = "UNINITIALIZED" => ~ enrolled /\ examKey = 0 /\ paper = 0) /\ Tail(todo) = <<>>
         /\ Head(todo) = "wipe" =>
              past.resetting /\ Tail(todo) = <<"noKey", "noPaper", "uninitialized", "stamp">>
         /\ Head(todo) = "noKey" =>
              past.resetting /\ ~ enrolled /\ Tail(todo) = <<"noPaper", "uninitialized", "stamp">>
         /\ Head(todo) = "noPaper" =>
              past.resetting /\ ~ enrolled /\ examKey = 0 /\ Tail(todo) = <<"uninitialized", "stamp">>
         /\ Head(todo) = "uninitialized" =>
              past.resetting /\ ~ enrolled /\ examKey = 0 /\ paper = 0 /\ Tail(todo) = <<"stamp">>
  <1>1. CASE todo = Initialization /\ ~ enrolled /\ past.issued < MaxExams
    BY <1>1 DEF Initialization
  <1>2. CASE todo = <<"storeKey", "storePaper", "initialized", "stamp">> /\ enrolled
    BY <1>2
  <1>3. CASE todo = <<"storePaper", "initialized", "stamp">> /\ enrolled /\ examKey = past.issued
    BY <1>3
  <1>4. CASE todo = <<"initialized", "stamp">> /\ enrolled /\ examKey = past.issued /\ paper = past.issued
    BY <1>4
  <1>5. CASE todo = <<"next", "stamp">> /\ phase \in Delivery
    BY <1>5
  <1>6. CASE todo = <<"stamp">> /\ (phase = "UNINITIALIZED" => ~ enrolled /\ examKey = 0 /\ paper = 0)
    BY <1>6
  <1>7. CASE todo = Reset /\ past.resetting
    BY <1>7 DEF Reset
  <1>8. CASE todo = <<"noKey", "noPaper", "uninitialized", "stamp">> /\ past.resetting /\ ~ enrolled
    BY <1>8
  <1>9. CASE todo = <<"noPaper", "uninitialized", "stamp">> /\ past.resetting /\ ~ enrolled /\ examKey = 0
    BY <1>9
  <1>10. CASE todo = <<"uninitialized", "stamp">> /\ past.resetting /\ ~ enrolled /\ examKey = 0 /\ paper = 0
    BY <1>10
  <1> QED BY <1>1, <1>2, <1>3, <1>4, <1>5, <1>6, <1>7, <1>8, <1>9, <1>10 DEF AdminIsSound
--------------------------------------------------------------------------------
(* The steps *)

LEMMA Initially == Init => IInv
  <1> SUFFICES ASSUME Init PROVE IInv
    OBVIOUS
  <1> USE BoundsAssumption, NoneAssumption
  <1>1. Over \in Handlers
    BY EmptySeq DEF Over, Handlers, Exams
  <1>2. TypeOK
    <2>1. 0 \in Times /\ 0 \in Exams /\ 0 \in 0..MaxKeys /\ 0 \in 0..MaxFaults
      BY DEF Times, Exams
    <2> QED BY <2>1 DEF Init, TypeOK, Phases, Over
  <1>3. past \in Pasts /\ past.strays = {} /\ past.issued = 0
    BY DEF Init, Pasts, Exams, Times
  <1>4. Typed
    BY <1>1, <1>2, <1>3 DEF Init, Typed, Over
  <1>5. AdminIsSound /\ ExamIsWhole /\ RowIsOfExam /\ EffectIsSound
    BY DEF Init, AdminIsSound, ExamIsWhole, RowIsOfExam, EffectIsSound, PaperIsOfExam, NothingBeforeStart
  <1>6. NoncesAreKept /\ \A m \in Messages : HandlerIsSound(m)
    BY DEF Init, NoncesAreKept, HandlerIsSound, Over
  <1> QED BY <1>4, <1>5, <1>6 DEF IInv

\* A step that leaves requests and handlers alone keeps what is said of them, if it neither raises the
\* exam's number nor brings back a registration, and an exam that has not started stays so.
LEMMA Waiting ==
  ASSUME IInv, effect' = None, UNCHANGED <<now, mail, nonces, req>>,
         past'.heard = past.heard, past'.issued = past.issued, past.strays \subseteq past'.strays,
         row' = row \/ row' = 0 \/ row' > key,
         past'.started \in {past.started, past.issued},
         past.resetting => past'.resetting \/ (~ enrolled' /\ examKey' = 0),
         ~ enrolled /\ examKey = 0 => ~ enrolled' /\ examKey' = 0
  PROVE  NoncesAreKept' /\ (\A m \in Messages : HandlerIsSound(m)') /\ EffectIsSound'
  <1> USE BoundsAssumption
  <1>1. NoncesAreKept'
    BY DEF IInv, NoncesAreKept
  <1>2. EffectIsSound'
    BY DEF EffectIsSound, PaperIsOfExam, NothingBeforeStart
  <1>3. ASSUME NEW m \in Messages PROVE HandlerIsSound(m)'
    <2> SUFFICES ASSUME req[m].left # <<>> PROVE HandlerIsSound(m)'
      BY DEF HandlerIsSound
    <2>1. /\ mail[m] \in Sealed /\ HandlerIsSound(m) /\ req[m] \in Handlers
          /\ mail[m].key <= key /\ mail[m].key \in 1..MaxKeys /\ key \in 0..MaxKeys
      BY <1>3 DEF IInv, HandlerIsSound, Typed, TypeOK, Sealed
    <2>2. mail[m].endpoint = "config" => DeliveryIsSound(req[m], mail[m].key)'
      BY <2>1 DEF HandlerIsSound, DeliveryIsSound, ToAuth, ToPaper, ToPhase, ToRow, Handlers
    <2>3. OpenedByStart(req[m])'
      BY <2>1 DEF HandlerIsSound, OpenedByStart, Has
    <2> QED BY <2>1, <2>2, <2>3 DEF HandlerIsSound, Has
  <1> QED BY <1>1, <1>2, <1>3

\* An admin asks for something.
LEMMA Asking ==
  ASSUME IInv, effect' = None, Initializes \/ Advances \/ Resets
  PROVE  IInv'
  <1> USE BoundsAssumption
  <1>1. /\ UNCHANGED <<now, phase, changedAt, examKey, paper, enrolled, row, bound, key, token, mail, nonces, req>>
        /\ past' = [past EXCEPT !.resetting = past'.resetting] /\ past'.resetting \in BOOLEAN
        /\ past.resetting => past'.resetting
    BY DEF Initializes, Advances, Resets, Asks, machine, IInv, Typed, Pasts
  <1>2. past' \in Pasts /\ past'.heard = past.heard /\ past'.issued = past.issued
        /\ past'.strays = past.strays /\ past'.started = past.started
    BY <1>1 DEF IInv, Typed, Pasts
  <1>3. Typed'
    BY <1>1, <1>2 DEF IInv, Typed, TypeOK, Pasts
  <1>4. AdminIsSound'
    BY <1>1, <1>2 DEF Initializes, Advances, Resets, Asks, AdminIsSound, Initialization, Reset, IInv, Typed, Pasts
  <1>5. ExamIsWhole' /\ RowIsOfExam'
    BY <1>1, <1>2 DEF IInv, ExamIsWhole, RowIsOfExam
  <1>6. NoncesAreKept' /\ (\A m \in Messages : HandlerIsSound(m)') /\ EffectIsSound'
    BY <1>1, <1>2, Waiting
  <1> QED BY <1>3, <1>4, <1>5, <1>6 DEF IInv

\* People are enrolled: nobody was, so no registration but strays is there, and no handler is of the new exam.
LEMMA Enrolling ==
  ASSUME IInv, effect' = None, Enrols
  PROVE  IInv'
  <1> USE BoundsAssumption
  <1>1. /\ ~ enrolled /\ past.issued < MaxExams /\ enrolled'
        /\ todo' = <<"storeKey", "storePaper", "initialized", "stamp">>
        /\ UNCHANGED <<now, phase, changedAt, examKey, paper, row, bound, key, token, mail, nonces, req>>
        /\ past' = [past EXCEPT !.issued = @ + 1]
    BY AdminAt DEF IInv, Enrols, Does, Here, Rest, machine
  <1>2. /\ past' \in Pasts /\ past'.issued = past.issued + 1 /\ past.issued \in Nat /\ past'.started = past.started
        /\ past'.heard = past.heard /\ past'.strays = past.strays /\ past'.resetting = past.resetting
    BY <1>1 DEF IInv, Typed, Pasts, Exams
  <1>3. Typed'
    <2>1. TypeOK'
      BY <1>1, <1>2 DEF IInv, Typed, TypeOK, Pasts
    <2>2. \A m \in Messages : req[m].exam <= past'.issued
      BY <1>2 DEF IInv, Typed, Handlers, Exams
    <2> QED BY <1>1, <1>2, <2>1, <2>2 DEF IInv, Typed
  <1>4. AdminIsSound'
    BY <1>1 DEF AdminIsSound
  <1>5. ExamIsWhole' /\ RowIsOfExam'
    BY <1>1, <1>2 DEF IInv, ExamIsWhole, RowIsOfExam, Typed, TypeOK
  <1>6. NoncesAreKept' /\ EffectIsSound'
    BY <1>1, <1>2 DEF IInv, NoncesAreKept, EffectIsSound, PaperIsOfExam, NothingBeforeStart
  <1>7. ASSUME NEW m \in Messages PROVE HandlerIsSound(m)'
    <2> SUFFICES ASSUME req[m].left # <<>> PROVE HandlerIsSound(m)'
      BY <1>1 DEF HandlerIsSound
    <2>1. /\ mail[m] \in Sealed /\ HandlerIsSound(m) /\ req[m] \in Handlers
          /\ mail[m].key \in 1..MaxKeys /\ req[m].exam <= past.issued /\ req[m].exam \in Nat
      BY <1>7 DEF IInv, HandlerIsSound, Typed, TypeOK, Sealed, Handlers, Exams
    <2>2. row = 0 \/ row \in past.strays
      BY <1>1 DEF IInv, RowIsOfExam
    <2>3. mail[m].endpoint = "config" => DeliveryIsSound(req[m], mail[m].key)'
      <3> SUFFICES ASSUME mail[m].endpoint = "config" PROVE DeliveryIsSound(req[m], mail[m].key)'
        BY <1>1
      <3>1. DeliveryIsSound(req[m], mail[m].key)
        BY <2>1 DEF HandlerIsSound
      <3>2. row' = 0 \/ row' \in past'.strays
        BY <1>1, <1>2, <2>2
      <3>3. ~ ToAuth(req[m].left) => req[m].held # 0
        BY <2>1, <3>1 DEF DeliveryIsSound
      <3>4. ~ (ToAuth(req[m].left) /\ (ToPhase(req[m].left) \/ ToRow(req[m].left)))
        BY Delivering
      <3> QED BY <1>1, <3>1, <3>2, <3>3, <3>4 DEF DeliveryIsSound, ToAuth, ToPaper, ToPhase, ToRow
    <2>4. OpenedByStart(req[m])'
      BY <1>1, <1>2, <2>1 DEF OpenedByStart
    <2> QED BY <1>1, <2>1, <2>3, <2>4 DEF HandlerIsSound, Has
  <1> QED BY <1>3, <1>4, <1>5, <1>6, <1>7 DEF IInv

\* Key and paper are stored, the phase follows.
LEMMA Storing ==
  ASSUME IInv, effect' = None, StoresKey \/ StoresPaper \/ EntersInitialized
  PROVE  IInv'
  <1> USE BoundsAssumption
  <1>1. /\ UNCHANGED <<now, changedAt, row, bound, key, token, mail, nonces, req, past, enrolled>> /\ enrolled
        /\ examKey' \in {examKey, past.issued} /\ paper' \in {paper, past.issued} /\ phase' \in {phase, "INITIALIZED"}
    BY AdminAt DEF IInv, StoresKey, StoresPaper, EntersInitialized, Does, Here, Rest, machine
  <1>2. Typed'
    BY <1>1 DEF IInv, Typed, TypeOK, Pasts, Phases
  <1>3. AdminIsSound'
    BY <1>1, AdminAt DEF IInv, AdminIsSound, StoresKey, StoresPaper, EntersInitialized, Does
  <1>4. ExamIsWhole'
    BY <1>1, AdminAt DEF IInv, ExamIsWhole, StoresKey, StoresPaper, EntersInitialized, Does
  <1>5. RowIsOfExam'
    BY <1>1 DEF IInv, RowIsOfExam
  <1>6. NoncesAreKept' /\ (\A m \in Messages : HandlerIsSound(m)') /\ EffectIsSound'
    BY <1>1, Waiting
  <1> QED BY <1>2, <1>3, <1>4, <1>5, <1>6 DEF IInv

\* The phase moves on, and its stamp follows.
LEMMA Advancement ==
  ASSUME IInv, effect' = None, EntersNext \/ Stamps
  PROVE  IInv'
  <1> USE BoundsAssumption
  <1>1. /\ UNCHANGED <<now, examKey, paper, enrolled, row, bound, key, token, mail, nonces, req>>
        /\ changedAt' \in {changedAt, now}
    BY DEF EntersNext, Stamps, Does, Here, Rest, machine
  <1>2. CASE EntersNext
    <2>1. /\ phase \in Delivery /\ todo' = <<"stamp">> /\ changedAt' = changedAt
          /\ past' = [past EXCEPT !.started = IF phase' = "IN_PROGRESS" THEN past.issued ELSE @]
          /\ phase' = Phase!NextPhase[phase]
      BY <1>2, AdminAt DEF IInv, EntersNext, Does
    <2>2. \/ phase = "INITIALIZED" /\ phase' = "SETUP_FINISHED"
          \/ phase = "SETUP_FINISHED" /\ phase' = "IN_PROGRESS"
          \/ phase = "IN_PROGRESS" /\ phase' = "FINISHED"
      <3>1. /\ Phase!NextPhase["INITIALIZED"] = "SETUP_FINISHED" /\ Phase!NextPhase["SETUP_FINISHED"] = "IN_PROGRESS"
            /\ Phase!NextPhase["IN_PROGRESS"] = "FINISHED"
        BY DEF Phase!NextPhase
      <3> QED BY <2>1, <3>1 DEF Delivery
    <2>3. /\ past' \in Pasts /\ past'.started = (IF phase' = "IN_PROGRESS" THEN past.issued ELSE past.started)
          /\ past'.heard = past.heard /\ past'.strays = past.strays /\ past'.issued = past.issued
          /\ past'.resetting = past.resetting
      BY <2>1 DEF IInv, Typed, Pasts
    <2>4. Typed'
      BY <1>1, <2>1, <2>2, <2>3 DEF IInv, Typed, TypeOK, Pasts, Phases
    <2>5. AdminIsSound'
      BY <2>1, <2>2 DEF AdminIsSound
    <2>6. ExamIsWhole' /\ RowIsOfExam'
      BY <1>1, <2>2, <2>3 DEF IInv, ExamIsWhole, RowIsOfExam
    <2>7. NoncesAreKept' /\ (\A m \in Messages : HandlerIsSound(m)') /\ EffectIsSound'
      BY <1>1, <2>3, Waiting
    <2> QED BY <2>4, <2>5, <2>6, <2>7 DEF IInv
  <1>3. CASE Stamps
    <2>1. /\ todo' = <<>> /\ phase' = phase /\ (phase = "UNINITIALIZED" => ~ enrolled /\ examKey = 0 /\ paper = 0)
          /\ past' = [past EXCEPT !.resetting = @ /\ phase # "UNINITIALIZED"]
      BY <1>3, AdminAt DEF IInv, Stamps, Does
    <2>2. /\ past' \in Pasts /\ past'.started = past.started /\ past'.heard = past.heard
          /\ past'.strays = past.strays /\ past'.issued = past.issued
          /\ past'.resetting = (past.resetting /\ phase # "UNINITIALIZED")
      BY <2>1 DEF IInv, Typed, Pasts
    <2>3. Typed'
      BY <1>1, <2>1, <2>2 DEF IInv, Typed, TypeOK, Pasts
    <2>4. AdminIsSound'
      BY <2>1 DEF AdminIsSound
    <2>5. ExamIsWhole' /\ RowIsOfExam'
      BY <1>1, <2>1, <2>2 DEF IInv, ExamIsWhole, RowIsOfExam
    <2>6. NoncesAreKept' /\ (\A m \in Messages : HandlerIsSound(m)') /\ EffectIsSound'
      BY <1>1, <2>1, <2>2, Waiting
    <2> QED BY <2>3, <2>4, <2>5, <2>6 DEF IInv
  <1> QED BY <1>2, <1>3

\* A reset removes one thing after the other.
LEMMA Resetting ==
  ASSUME IInv, effect' = None, Wipes \/ ForgetsKey \/ ForgetsPaper \/ EntersUninitialized
  PROVE  IInv'
  <1> USE BoundsAssumption
  <1>1. /\ past' = past /\ past.resetting
        /\ UNCHANGED <<now, changedAt, key, token, mail, nonces, req>>
        /\ phase' \in {phase, "UNINITIALIZED"} /\ examKey' \in {examKey, 0} /\ paper' \in {paper, 0}
        /\ enrolled' \in BOOLEAN /\ (~ enrolled => ~ enrolled') /\ row' \in {row, 0} /\ bound' \in BOOLEAN
    <2>1. enrolled \in BOOLEAN /\ bound \in BOOLEAN /\ todo # <<>> /\ past.resetting
      BY AdminAt DEF IInv, Typed, TypeOK, Wipes, ForgetsKey, ForgetsPaper, EntersUninitialized, Does
    <2>2. CASE Wipes
      BY <2>1, <2>2 DEF Wipes, Does, Rest
    <2>3. CASE ForgetsKey
      BY <2>1, <2>3 DEF ForgetsKey, Does, Here, Rest, machine
    <2>4. CASE ForgetsPaper
      BY <2>1, <2>4 DEF ForgetsPaper, Does, Here, Rest, machine
    <2>5. CASE EntersUninitialized
      BY <2>1, <2>5 DEF EntersUninitialized, Does, Here, Rest, machine
    <2> QED BY <2>2, <2>3, <2>4, <2>5
  <1>2. Typed'
    <2>1. 0 \in Exams /\ 0 \in 0..MaxKeys /\ "UNINITIALIZED" \in Phases
      BY DEF Exams, Phases
    <2>2. TypeOK'
      BY <1>1, <2>1 DEF IInv, Typed, TypeOK
    <2> QED BY <1>1, <2>2 DEF IInv, Typed
  <1>3. AdminIsSound'
    BY <1>1, AdminAt DEF IInv, AdminIsSound, Wipes, ForgetsKey, ForgetsPaper, EntersUninitialized, Does, Here, machine
  <1>4. ExamIsWhole'
    BY <1>1 DEF ExamIsWhole
  <1>5. RowIsOfExam'
    BY <1>1, AdminAt DEF IInv, RowIsOfExam, Wipes, ForgetsKey, ForgetsPaper, EntersUninitialized, Does, Here, machine
  <1>6. NoncesAreKept' /\ (\A m \in Messages : HandlerIsSound(m)') /\ EffectIsSound'
    BY <1>1, Waiting
  <1> QED BY <1>2, <1>3, <1>4, <1>5, <1>6 DEF IInv

\* A call rejects, or the process starts anew.
LEMMA Stopping ==
  ASSUME IInv, effect' = None, Fails \/ Restarts
  PROVE  IInv'
  <1> USE BoundsAssumption
  <1>1. /\ todo' = <<>> /\ past.faults < MaxFaults
        /\ UNCHANGED <<now, phase, changedAt, examKey, paper, enrolled, row, bound, key, token, mail>>
    BY DEF Fails, Restarts, Here, Rest, machine
  <1>2. past \in Pasts /\ past.faults + 1 \in 0..MaxFaults
    BY <1>1 DEF IInv, Typed, Pasts
  <1>3. AdminIsSound'
    BY <1>1 DEF AdminIsSound
  <1>4. CASE Fails
    <2>1. UNCHANGED <<nonces, req>> /\ past' = [past EXCEPT !.faults = @ + 1]
      BY <1>4 DEF Fails, Here, Rest
    <2>2. /\ past' \in Pasts /\ past'.started = past.started /\ past'.heard = past.heard
          /\ past'.strays = past.strays /\ past'.issued = past.issued /\ past'.resetting = past.resetting
      BY <1>2, <2>1 DEF Pasts
    <2>3. Typed'
      BY <1>1, <2>1, <2>2 DEF IInv, Typed, TypeOK, Pasts
    <2>4. ExamIsWhole' /\ RowIsOfExam'
      BY <1>1, <2>2 DEF IInv, ExamIsWhole, RowIsOfExam
    <2>5. NoncesAreKept' /\ (\A m \in Messages : HandlerIsSound(m)') /\ EffectIsSound'
      BY <1>1, <2>1, <2>2, Waiting
    <2> QED BY <1>3, <2>3, <2>4, <2>5 DEF IInv
  <1>5. CASE Restarts
    <2>1. /\ req' = [m \in Messages |-> Over] /\ nonces' = [m \in Messages |-> None]
          /\ past' = [past EXCEPT !.faults = @ + 1, !.heard = [m \in Messages |-> None]]
      BY <1>5 DEF Restarts
    <2>2. /\ past' \in Pasts /\ past'.started = past.started /\ past'.heard = [m \in Messages |-> None]
          /\ past'.strays = past.strays /\ past'.issued = past.issued /\ past'.resetting = past.resetting
      BY <1>2, <2>1 DEF Pasts
    <2>3. Over \in Handlers /\ Over.exam = 0
      BY EmptySeq DEF Over, Handlers, Exams
    <2>4. TypeOK'
      <3>1. 0 \in Exams /\ 0 \in 0..MaxKeys
        BY DEF Exams
      <3>2. \A m \in Messages : nonces'[m] = None /\ req'[m].held = 0 /\ req'[m].saw = 0 /\ req'[m].exam = 0
        BY <2>1 DEF Over
      <3> QED BY <1>1, <2>2, <3>1, <3>2 DEF IInv, Typed, TypeOK, Pasts
    <2>5. Typed'
      BY <1>1, <2>1, <2>2, <2>3, <2>4 DEF IInv, Typed, Pasts, Exams
    <2>6. ExamIsWhole' /\ RowIsOfExam'
      BY <1>1, <2>2 DEF IInv, ExamIsWhole, RowIsOfExam
    <2>7. NoncesAreKept' /\ (\A m \in Messages : HandlerIsSound(m)') /\ EffectIsSound'
      BY <2>1, <2>2 DEF NoncesAreKept, HandlerIsSound, Over, EffectIsSound, PaperIsOfExam, NothingBeforeStart
    <2> QED BY <1>3, <2>5, <2>6, <2>7 DEF IInv
  <1> QED BY <1>4, <1>5
\* The machine registers, during a reset as a stray; a student signs in.
LEMMA Registering ==
  ASSUME IInv, effect' = None, Registers \/ SignsIn
  PROVE  IInv'
  <1> USE BoundsAssumption
  <1>1. CASE Registers
    <2>1. /\ phase \in Delivery /\ key < MaxKeys /\ key' = key + 1 /\ row' = key + 1 /\ token' = 0
          /\ past' = [past EXCEPT !.strays = IF past.resetting THEN @ \union {key + 1} ELSE @]
          /\ UNCHANGED <<now, phase, changedAt, examKey, paper, enrolled, todo, bound, mail, nonces, req>>
      BY <1>1 DEF Registers, Matrix, exam
    <2>2. key \in Nat /\ key + 1 \in 1..MaxKeys /\ key + 1 \in 0..MaxKeys
      BY <2>1 DEF IInv, Typed, TypeOK
    <2>3. /\ past' \in Pasts /\ past'.started = past.started /\ past'.heard = past.heard
          /\ past'.strays = (IF past.resetting THEN past.strays \union {key + 1} ELSE past.strays)
          /\ past'.issued = past.issued /\ past'.resetting = past.resetting
      BY <2>1, <2>2 DEF IInv, Typed, Pasts
    <2>4. TypeOK'
      BY <2>1, <2>2, <2>3 DEF IInv, Typed, TypeOK, Pasts
    <2>5. Typed'
      <3>1. past'.strays \subseteq 1..key'
        BY <2>1, <2>2, <2>3 DEF IInv, Typed
      <3>2. \A m \in Messages : mail[m] # None => mail[m].key <= key'
        BY <2>1, <2>2 DEF IInv, Typed, TypeOK, Sealed
      <3> QED BY <2>1, <2>3, <2>4, <3>1, <3>2 DEF IInv, Typed
    <2>6. AdminIsSound' /\ ExamIsWhole'
      BY <2>1, <2>3 DEF IInv, AdminIsSound, ExamIsWhole
    <2>7. RowIsOfExam'
      BY <2>1, <2>3 DEF IInv, ExamIsWhole, RowIsOfExam, Delivery
    <2>8. NoncesAreKept' /\ (\A m \in Messages : HandlerIsSound(m)') /\ EffectIsSound'
      BY <2>1, <2>2, <2>3, Waiting
    <2> QED BY <2>5, <2>6, <2>7, <2>8 DEF IInv
  <1>2. CASE SignsIn
    <2>1. /\ bound' = TRUE /\ token' = key
          /\ UNCHANGED <<now, phase, changedAt, examKey, paper, enrolled, todo, row, key, mail, nonces, req, past>>
      BY <1>2 DEF SignsIn, exam
    <2>2. Typed'
      BY <2>1 DEF IInv, Typed, TypeOK
    <2>3. AdminIsSound' /\ ExamIsWhole' /\ RowIsOfExam'
      BY <2>1 DEF IInv, AdminIsSound, ExamIsWhole, RowIsOfExam
    <2>4. past.started \in {past.started, past.issued}
      OBVIOUS
    <2>5. NoncesAreKept' /\ (\A m \in Messages : HandlerIsSound(m)') /\ EffectIsSound'
      BY <2>1, <2>4, Waiting
    <2> QED BY <2>2, <2>3, <2>5 DEF IInv
  <1> QED BY <1>1, <1>2

\* What a step outside the exam and the machine keeps, as long as its handlers are sound.
LEMMA Elsewhere ==
  ASSUME IInv, UNCHANGED <<exam, machine>>, past'.issued = past.issued, past'.started = past.started,
         past'.resetting = past.resetting, past'.strays = past.strays
  PROVE  AdminIsSound' /\ ExamIsWhole' /\ RowIsOfExam'
  BY DEF IInv, AdminIsSound, ExamIsWhole, RowIsOfExam, exam, machine

LEMMA SameHandler ==
  ASSUME NEW m \in Messages, HandlerIsSound(m), UNCHANGED <<exam, machine>>, req'[m] = req[m],
         mail[m] # None => mail'[m] = mail[m], past'.issued = past.issued, past'.started = past.started,
         past'.resetting = past.resetting, past'.strays = past.strays, mail[m] # None \/ req[m].left = <<>>
  PROVE  HandlerIsSound(m)'
  BY DEF HandlerIsSound, DeliveryIsSound, OpenedByStart, Has, ToAuth, ToPaper, ToPhase, ToRow, exam, machine

\* Time passes, the machine seals a request, a nonce is forgotten, a request arrives.
LEMMA Passing ==
  ASSUME IInv, effect' = None,
         \/ Tick
         \/ \E m \in Messages : (\E e \in Endpoints, ahead \in 0..Drift : Seals(m, e, ahead)) \/ Forgets(m)
  PROVE  IInv'
  <1> USE BoundsAssumption, NoneAssumption
  <1>1. UNCHANGED <<exam, machine, req, past>>
    BY DEF Tick, Seals, Forgets
  <1>2. \A m \in Messages : HandlerIsSound(m) /\ (mail[m] # None => mail'[m] = mail[m])
    BY DEF IInv, Tick, Seals, Forgets, Typed, TypeOK
  <1>3. \A m \in Messages : HandlerIsSound(m)'
    BY <1>1, <1>2, SameHandler DEF HandlerIsSound
  <1>4. AdminIsSound' /\ ExamIsWhole' /\ RowIsOfExam'
    BY <1>1, Elsewhere
  <1>5. EffectIsSound'
    BY DEF EffectIsSound, PaperIsOfExam, NothingBeforeStart
  <1>6. CASE Tick
    <2>1. now' = now + 1 /\ now' \in Times /\ now \in Nat /\ UNCHANGED <<mail, nonces>>
      BY <1>6 DEF Tick, IInv, Typed, TypeOK, Times
    <2>2. Typed'
      BY <1>1, <2>1 DEF IInv, Typed, TypeOK, exam, machine
    <2>3. NoncesAreKept'
      BY <1>1, <2>1 DEF IInv, NoncesAreKept, Typed, Pasts, Times
    <2> QED BY <1>3, <1>4, <1>5, <2>2, <2>3 DEF IInv
  <1>7. ASSUME NEW m \in Messages, NEW e \in Endpoints, NEW ahead \in 0..Drift, Seals(m, e, ahead)
        PROVE  IInv'
    <2>1. /\ mail' = [mail EXCEPT ![m] = [endpoint |-> e, key |-> key, token |-> token, stamped |-> now + ahead]]
          /\ key # 0 /\ UNCHANGED <<now, nonces>>
      BY <1>7 DEF Seals
    <2>2. [endpoint |-> e, key |-> key, token |-> token, stamped |-> now + ahead] \in Sealed
      BY <1>7, <2>1 DEF IInv, Typed, TypeOK, Sealed, Times
    <2>3. mail' \in [Messages -> Sealed \union {None}]
      BY <2>1, <2>2 DEF IInv, Typed, TypeOK
    <2>4. \A n \in Messages : mail'[n] # None => mail'[n].key <= key
      BY <2>1 DEF IInv, Typed, TypeOK
    <2>5. Typed'
      BY <1>1, <2>1, <2>3, <2>4 DEF IInv, Typed, TypeOK, exam, machine
    <2>6. NoncesAreKept'
      BY <1>1, <2>1 DEF IInv, NoncesAreKept
    <2> QED BY <1>3, <1>4, <1>5, <2>5, <2>6 DEF IInv
  <1>8. ASSUME NEW m \in Messages, Forgets(m)
        PROVE  IInv'
    <2>1. /\ nonces[m] # None /\ nonces[m] <= now /\ nonces' = [nonces EXCEPT ![m] = None]
          /\ UNCHANGED <<now, mail>>
      BY <1>8 DEF Forgets
    <2>2. nonces' \in [Messages -> (0..(MaxTime + Drift)) \union {None}]
      BY <2>1 DEF IInv, Typed
    <2>3. Typed'
      BY <1>1, <2>1, <2>2 DEF IInv, Typed, TypeOK, exam, machine
    <2>4. NoncesAreKept'
      BY <1>1, <1>8, <2>1 DEF IInv, NoncesAreKept, Typed
    <2> QED BY <1>3, <1>4, <1>5, <2>3, <2>4 DEF IInv
  <1> QED BY <1>6, <1>7, <1>8

LEMMA Arriving ==
  ASSUME IInv, effect' = None, NEW m \in Messages, Arrives(m)
  PROVE  IInv'
  <1> USE BoundsAssumption, NoneAssumption
  <1> DEFINE e == mail[m].endpoint
             fresh == [Over EXCEPT !.left = Entry(e), !.exam = past.issued]
  <1>1. /\ mail[m] # None /\ req[m] = Over /\ (m \in past.arrived => past.faults < MaxFaults)
        /\ req' = [req EXCEPT ![m] = IF Entry(e) = <<>> THEN Over ELSE fresh]
        /\ past' = [past EXCEPT !.arrived = @ \union {m}, !.faults = IF m \in past.arrived THEN @ + 1 ELSE @]
        /\ UNCHANGED <<now, exam, machine, mail, nonces>>
    BY DEF Arrives
  <1>2. /\ mail[m] \in Sealed /\ e \in Endpoints /\ phase \in Phases /\ past \in Pasts /\ past.issued \in Exams
        /\ mail[m].key \in 1..MaxKeys
    BY <1>1 DEF IInv, Typed, TypeOK, Sealed
  <1>3. /\ past' \in Pasts /\ past'.started = past.started /\ past'.heard = past.heard
        /\ past'.strays = past.strays /\ past'.issued = past.issued /\ past'.resetting = past.resetting
    <2>1. (IF m \in past.arrived THEN past.faults + 1 ELSE past.faults) \in 0..MaxFaults
          /\ past.arrived \union {m} \in SUBSET Messages
      BY <1>1, <1>2 DEF Pasts
    <2> QED BY <1>1, <1>2, <2>1 DEF Pasts
  <1>4. Over \in Handlers /\ Over.left = <<>> /\ Over.exam = 0 /\ Over.held = 0
    BY EmptySeq DEF Over, Handlers, Exams
  <1>5. /\ fresh \in Handlers /\ fresh.left = Entry(e) /\ fresh.exam = past.issued
    BY <1>2, <1>4, Entrances DEF Handlers, Over
  <1>6. req' \in [Messages -> Handlers]
    <2> HIDE DEF fresh
    <2> QED BY <1>1, <1>4, <1>5 DEF IInv, Typed
  <1>7. Typed'
    <2>1. TypeOK'
      BY <1>1, <1>3, <1>6 DEF IInv, Typed, TypeOK, Handlers, Pasts, exam, machine
    <2>2. \A n \in Messages : req'[n].exam <= past.issued
      <3> HIDE DEF fresh
      <3> QED BY <1>1, <1>2, <1>4, <1>5 DEF IInv, Typed, Exams
    <2> QED BY <1>1, <1>3, <1>6, <2>1, <2>2 DEF IInv, Typed, machine
  <1>8. AdminIsSound' /\ ExamIsWhole' /\ RowIsOfExam'
    BY <1>1, <1>3, Elsewhere
  <1>9. NoncesAreKept' /\ EffectIsSound'
    BY <1>1, <1>3 DEF IInv, NoncesAreKept, EffectIsSound, PaperIsOfExam, NothingBeforeStart
  <1>10. ASSUME NEW n \in Messages, n # m PROVE HandlerIsSound(n)'
    <2>1. HandlerIsSound(n) /\ req'[n] = req[n] /\ mail'[n] = mail[n] /\ (mail[n] # None \/ req[n].left = <<>>)
      BY <1>1, <1>10 DEF IInv, Typed, HandlerIsSound
    <2> QED BY <1>1, <1>3, <2>1, SameHandler
  <1>11. HandlerIsSound(m)'
    <2>1. CASE Entry(e) = <<>>
      <3>1. req'[m].left = <<>>
        BY <1>1, <1>4, <2>1 DEF IInv, Typed
      <3> QED BY <3>1 DEF HandlerIsSound
    <2>2. CASE Entry(e) # <<>>
      <3>1. req'[m] = fresh
        BY <1>1, <2>2 DEF IInv, Typed
      <3> HIDE DEF fresh, e
      <3>2. e = "config" => ToAuth(fresh.left)
        BY <1>2, <1>5, <2>2, Entrances
      <3>3. ToAuth(fresh.left) => ~ ToPhase(fresh.left) /\ ~ ToRow(fresh.left)
        BY Delivering
      <3>4. e = "config" => DeliveryIsSound(req[m], mail[m].key)'
        BY <3>1, <3>2, <3>3 DEF DeliveryIsSound, ToAuth, ToPhase, ToRow
      <3>5. e \in {"key", "code"} => ~ Has(fresh.left, "row")
        BY <1>2, <1>5, Entrances
      <3>6. Has(fresh.left, "examKey") \/ Has(fresh.left, "store") => past.started = past.issued \/ past.resetting
        BY <1>2, <1>5, Entrances DEF IInv, ExamIsWhole
      <3>7. OpenedByStart(req[m])'
        BY <1>3, <3>1, <3>6 DEF OpenedByStart, Has
      <3> USE DEF e
      <3> QED BY <1>1, <3>1, <3>4, <3>5, <3>7 DEF HandlerIsSound, Has
    <2> QED BY <2>1, <2>2
  <1> QED BY <1>7, <1>8, <1>9, <1>10, <1>11 DEF IInv
\* A handler that has made a call knows no more than before but what the call told it, and gets no
\* further than its next call; what the delivery of the paper knows is to be shown by its calls.
LEMMA Handling ==
  ASSUME IInv, NEW m \in Messages, req[m].left # <<>>, NEW next,
         UNCHANGED <<now, exam, machine, mail>>,
         req' = [req EXCEPT ![m] = next],
         next = Over \/ (next \in Handlers /\ next.left = Tail(req[m].left) /\ next.exam = req[m].exam),
         next.left # <<>> /\ mail[m].endpoint = "config" => DeliveryIsSound(next, mail[m].key),
         \/ UNCHANGED <<nonces, past>>
         \/ Near(m) /\ Remembers(m) /\ past' = [past EXCEPT !.heard[m] = now],
         EffectIsSound'
  PROVE  IInv'
  <1> USE BoundsAssumption, NoneAssumption
  <1>1. /\ req[m] \in Handlers /\ past \in Pasts /\ HandlerIsSound(m) /\ past.issued \in Exams /\ now \in Times
        /\ mail[m] \in Sealed
    BY DEF IInv, Typed, TypeOK, HandlerIsSound
  <1>2. /\ Over \in Handlers /\ Over.left = <<>> /\ Over.exam = 0
    BY EmptySeq DEF Over, Handlers, Exams
  <1>3. next \in Handlers /\ next.exam <= past.issued
    BY <1>1, <1>2 DEF IInv, Typed, Exams
  <1>4. req' \in [Messages -> Handlers] /\ req'[m] = next /\ \A n \in Messages : n # m => req'[n] = req[n]
    BY <1>3 DEF IInv, Typed
  <1>5. /\ past' \in Pasts /\ past'.started = past.started /\ past'.strays = past.strays
        /\ past'.issued = past.issued /\ past'.resetting = past.resetting
    BY <1>1 DEF Pasts
  <1>6. nonces' \in [Messages -> (0..(MaxTime + Drift)) \union {None}]
    BY <1>1 DEF IInv, Typed, Remembers, Times
  <1>7. Typed'
    <2>1. TypeOK'
      BY <1>4, <1>5, <1>6 DEF IInv, Typed, TypeOK, Handlers, Pasts, exam, machine
    <2>2. \A n \in Messages : req'[n].exam <= past.issued
      BY <1>3, <1>4 DEF IInv, Typed
    <2> QED BY <1>4, <1>5, <1>6, <2>1, <2>2 DEF IInv, Typed, machine
  <1>8. AdminIsSound' /\ ExamIsWhole' /\ RowIsOfExam'
    BY <1>5, Elsewhere
  <1>9. NoncesAreKept'
    <2>1. CASE UNCHANGED <<nonces, past>>
      BY <2>1 DEF IInv, NoncesAreKept
    <2>2. CASE Near(m) /\ Remembers(m) /\ past' = [past EXCEPT !.heard[m] = now]
      <3>1. past'.heard = [past.heard EXCEPT ![m] = now] /\ nonces' = [nonces EXCEPT ![m] = now + Drift]
            /\ now # None /\ now + Drift # None
        BY <1>1, <2>2 DEF Pasts, Remembers, Times
      <3> QED BY <1>1, <3>1 DEF IInv, NoncesAreKept, Typed, Pasts
    <2> QED BY <2>1, <2>2
  <1>10. ASSUME NEW n \in Messages, n # m PROVE HandlerIsSound(n)'
    <2>1. HandlerIsSound(n) /\ req'[n] = req[n] /\ mail'[n] = mail[n] /\ (mail[n] # None \/ req[n].left = <<>>)
      BY <1>4, <1>10 DEF IInv, HandlerIsSound
    <2> QED BY <1>5, <2>1, SameHandler
  <1>11. HandlerIsSound(m)'
    <2> SUFFICES ASSUME next.left # <<>> PROVE HandlerIsSound(m)'
      BY <1>4 DEF HandlerIsSound
    <2>1. next.left = Tail(req[m].left) /\ next.exam = req[m].exam
      BY <1>2
    <2>2. \A c : Has(next.left, c) => Has(req[m].left, c)
      BY <1>1, <2>1, Advancing DEF Handlers
    <2>3. mail[m] # None
      BY <1>1 DEF HandlerIsSound
    <2>4. mail[m].endpoint = "config" => DeliveryIsSound(req[m], mail[m].key)'
      BY <1>4, <1>5 DEF DeliveryIsSound, ToAuth, ToPaper, ToPhase, ToRow, machine
    <2>5. mail[m].endpoint \in {"key", "code"} => ~ Has(next.left, "row")
      BY <1>1, <2>2 DEF HandlerIsSound
    <2>6. OpenedByStart(next)
      BY <1>1, <2>1, <2>2 DEF HandlerIsSound, OpenedByStart
    <2>7. OpenedByStart(req[m])'
      BY <1>4, <1>5, <2>6 DEF OpenedByStart, Has, exam
    <2> QED BY <1>4, <2>3, <2>4, <2>5, <2>7 DEF HandlerIsSound, Has
  <1> QED BY <1>7, <1>8, <1>9, <1>10, <1>11 DEF IInv
\* Where the handler of a request for the paper stands when it makes a call.
LEMMA DeliveringAt ==
  ASSUME IInv, NEW m \in Messages, req[m].left # <<>>, mail[m].endpoint = "config"
  PROVE  LET left == req[m].left IN
         /\ DeliveryIsSound(req[m], mail[m].key)
         /\ Head(left) \in {"auth", "paper", "phase", "row"}
         /\ Head(left) = "auth" => ToPaper(Tail(left)) /\ ToAuth(left)
         /\ Head(left) = "paper" => ToPhase(Tail(left)) /\ ~ ToAuth(left)
         /\ Head(left) = "phase" => ToRow(Tail(left)) /\ ToPhase(left) /\ ~ ToAuth(left)
         /\ Head(left) = "row" => Tail(left) = <<>> /\ ToRow(left) /\ ~ ToAuth(left)
  <1>1. DeliveryIsSound(req[m], mail[m].key)
    BY DEF IInv, HandlerIsSound
  <1>2. ToAuth(req[m].left) \/ ToPaper(req[m].left) \/ ToPhase(req[m].left) \/ ToRow(req[m].left)
    BY <1>1 DEF DeliveryIsSound
  <1> QED BY <1>1, <1>2, Delivering

\* A call returns, and the handler goes on or ends.
LEMMA Turning ==
  ASSUME IInv, NEW m \in Messages, NEW call, At(m, call), NEW ok,
         NEW held \in 0..MaxKeys, NEW saw \in Exams \union Times,
         Turns(m, ok, [left |-> Tail(req[m].left), held |-> held, saw |-> saw, exam |-> req[m].exam]),
         Quiet,
         \/ UNCHANGED <<nonces, past>>
         \/ Near(m) /\ Remembers(m) /\ past' = [past EXCEPT !.heard[m] = now],
         ok /\ mail[m].endpoint = "config" =>
           DeliveryIsSound([left |-> Tail(req[m].left), held |-> held, saw |-> saw, exam |-> req[m].exam], mail[m].key)
  PROVE  IInv'
  <1> DEFINE go == [left |-> Tail(req[m].left), held |-> held, saw |-> saw, exam |-> req[m].exam]
             next == IF ok /\ go.left # <<>> THEN go ELSE Over
  <1>1. req[m].left # <<>> /\ req[m] \in Handlers
    BY DEF At, IInv, Typed
  <1>2. go \in Handlers
    BY <1>1, Advancing DEF Handlers
  <1>3. EffectIsSound' /\ UNCHANGED <<now, exam, machine, mail>>
    BY DEF Quiet, EffectIsSound, PaperIsOfExam, NothingBeforeStart
  <1>4. req' = [req EXCEPT ![m] = next]
    BY DEF Turns
  <1>5. Over.left = <<>>
    BY DEF Over
  <1>6. next = Over \/ (next \in Handlers /\ next.left = Tail(req[m].left) /\ next.exam = req[m].exam)
    BY <1>2
  <1>7. next.left # <<>> /\ mail[m].endpoint = "config" => DeliveryIsSound(next, mail[m].key)
    BY <1>5
  <1> HIDE DEF next, go
  <1> QED BY <1>1, <1>3, <1>4, <1>6, <1>7, Handling

LEMMA Updated ==
  ASSUME NEW r \in Handlers, NEW x
  PROVE  /\ [r EXCEPT !.left = x] = [left |-> x, held |-> r.held, saw |-> r.saw, exam |-> r.exam]
         /\ [r EXCEPT !.held = x] = [left |-> r.left, held |-> x, saw |-> r.saw, exam |-> r.exam]
         /\ [r EXCEPT !.saw = x] = [left |-> r.left, held |-> r.held, saw |-> x, exam |-> r.exam]
  BY DEF Handlers

\* The calls of a handler before its last.
LEMMA Calling ==
  ASSUME IInv, NEW m \in Messages,
         \/ ChecksFinished(m) \/ ReadsChange(m) \/ ChecksWindow(m)
         \/ AuthenticatesDevice(m) \/ ReadsAesKey(m) \/ OpensEnvelope(m)
         \/ OpensSession(m) \/ ChecksDevice(m) \/ ChecksUser(m)
         \/ ReadsPaper(m) \/ ChecksPhase(m) \/ Works(m)
  PROVE  IInv'
  <1> USE BoundsAssumption
  <1> DEFINE go(held, saw) == [left |-> Tail(req[m].left), held |-> held, saw |-> saw, exam |-> req[m].exam]
  <1>1. req[m].left # <<>>
    BY DEF ChecksFinished, ReadsChange, ChecksWindow, AuthenticatesDevice, ReadsAesKey, OpensEnvelope,
           OpensSession, ChecksDevice, ChecksUser, ReadsPaper, ChecksPhase, Works, At
  <1>2. /\ req[m] \in Handlers /\ row \in 0..MaxKeys /\ changedAt \in Times /\ paper \in Exams /\ 0 \in Exams
        /\ mail[m] # None
    BY <1>1 DEF IInv, Typed, TypeOK, Exams, HandlerIsSound
  <1>3. /\ Next1(m) = go(req[m].held, req[m].saw)
        /\ \A h : [Next1(m) EXCEPT !.held = h] = go(h, req[m].saw)
        /\ \A s : [Next1(m) EXCEPT !.saw = s] = go(req[m].held, s)
        /\ req[m].held \in 0..MaxKeys /\ req[m].saw \in Exams \union Times
    <2>1. Next1(m) = go(req[m].held, req[m].saw)
      BY <1>2, Updated DEF Next1
    <2>2. Next1(m) \in Handlers
      BY <1>1, <1>2, <2>1, Advancing DEF Handlers
    <2>3. /\ \A h : [Next1(m) EXCEPT !.held = h] = go(h, req[m].saw)
          /\ \A s : [Next1(m) EXCEPT !.saw = s] = go(req[m].held, s)
      <3>1. /\ Next1(m).left = Tail(req[m].left) /\ Next1(m).held = req[m].held
            /\ Next1(m).saw = req[m].saw /\ Next1(m).exam = req[m].exam
        BY <2>1
      <3>2. ASSUME NEW h PROVE [Next1(m) EXCEPT !.held = h] = go(h, req[m].saw)
        <4>1. [Next1(m) EXCEPT !.held = h]
              = [left |-> Next1(m).left, held |-> h, saw |-> Next1(m).saw, exam |-> Next1(m).exam]
          BY <2>2, Updated
        <4> QED BY <3>1, <4>1
      <3>3. ASSUME NEW s PROVE [Next1(m) EXCEPT !.saw = s] = go(req[m].held, s)
        <4>1. [Next1(m) EXCEPT !.saw = s]
              = [left |-> Next1(m).left, held |-> Next1(m).held, saw |-> s, exam |-> Next1(m).exam]
          BY <2>2, Updated
        <4> QED BY <3>1, <4>1
      <3> QED BY <3>2, <3>3
    <2> QED BY <1>2, <2>1, <2>3 DEF Handlers
  <1>4. CASE ChecksFinished(m)
    <2> DEFINE ok == phase = "FINISHED"
    <2>1. At(m, "finished") /\ Turns(m, ok, go(req[m].held, req[m].saw)) /\ Quiet /\ UNCHANGED <<nonces, past>>
      BY <1>3, <1>4 DEF ChecksFinished, Silent
    <2>2. mail[m].endpoint # "config"
      BY <1>1, <2>1, DeliveringAt DEF At
    <2> HIDE DEF ok
    <2> QED BY <1>2, <1>3, <2>1, <2>2, Turning
  <1>5. CASE ReadsChange(m)
    <2> DEFINE ok == TRUE
    <2>1. At(m, "since") /\ Turns(m, ok, go(req[m].held, changedAt)) /\ Quiet /\ UNCHANGED <<nonces, past>>
      BY <1>3, <1>5 DEF ReadsChange, Silent
    <2>2. mail[m].endpoint # "config"
      BY <1>1, <2>1, DeliveringAt DEF At
    <2> HIDE DEF ok
    <2> QED BY <1>2, <1>3, <2>1, <2>2, Turning
  <1>6. CASE ChecksWindow(m)
    <2> DEFINE ok == now <= req[m].saw + Grace
    <2>1. At(m, "window") /\ Turns(m, ok, go(req[m].held, 0)) /\ Quiet /\ UNCHANGED <<nonces, past>>
      BY <1>3, <1>6 DEF ChecksWindow, Silent
    <2>2. mail[m].endpoint # "config"
      BY <1>1, <2>1, DeliveringAt DEF At
    <2> HIDE DEF ok
    <2> QED BY <1>2, <1>3, <2>1, <2>2, Turning
  <1>7. CASE AuthenticatesDevice(m)
    <2> DEFINE ok == Decrypts(m, row) /\ Fresh(m)
    <2>1. At(m, "auth") /\ Turns(m, ok, go(row, req[m].saw)) /\ SavesNonce(m, ok) /\ Quiet
      BY <1>3, <1>7 DEF AuthenticatesDevice
    <2>2. \/ UNCHANGED <<nonces, past>>
          \/ Near(m) /\ Remembers(m) /\ past' = [past EXCEPT !.heard[m] = now]
      BY <2>1 DEF SavesNonce, Fresh
    <2>3. ok /\ mail[m].endpoint = "config" => DeliveryIsSound(go(row, req[m].saw), mail[m].key)
      <3> SUFFICES ASSUME ok, mail[m].endpoint = "config" PROVE DeliveryIsSound(go(row, req[m].saw), mail[m].key)
        OBVIOUS
      <3>1. ToPaper(Tail(req[m].left)) /\ row = mail[m].key
        BY <1>1, <2>1, DeliveringAt DEF At, Decrypts
      <3> QED BY <3>1, Delivering DEF DeliveryIsSound
    <2> HIDE DEF ok
    <2> QED BY <1>2, <1>3, <2>1, <2>2, <2>3, Turning
  <1>8. CASE ReadsAesKey(m)
    <2> DEFINE ok == row # 0
    <2>1. At(m, "aesKey") /\ Turns(m, ok, go(row, req[m].saw)) /\ Quiet /\ UNCHANGED <<nonces, past>>
      BY <1>3, <1>8 DEF ReadsAesKey, Silent
    <2>2. mail[m].endpoint # "config"
      BY <1>1, <2>1, DeliveringAt DEF At
    <2> HIDE DEF ok
    <2> QED BY <1>2, <1>3, <2>1, <2>2, Turning
  <1>9. CASE OpensEnvelope(m)
    <2> DEFINE opened == Decrypts(m, row) /\ Fresh(m)
               ok == opened /\ Verifies(m, req[m].held)
    <2>1. At(m, "envelope") /\ Turns(m, ok, go(req[m].held, req[m].saw)) /\ SavesNonce(m, opened) /\ Quiet
      BY <1>3, <1>9 DEF OpensEnvelope
    <2>2. \/ UNCHANGED <<nonces, past>>
          \/ Near(m) /\ Remembers(m) /\ past' = [past EXCEPT !.heard[m] = now]
      BY <2>1 DEF SavesNonce, Fresh
    <2>3. mail[m].endpoint # "config"
      BY <1>1, <2>1, DeliveringAt DEF At
    <2> HIDE DEF ok
    <2> QED BY <1>3, <2>1, <2>2, <2>3, Turning
  <1>10. CASE OpensSession(m)
    <2> DEFINE ok == Decrypts(m, row) /\ Verifies(m, row)
    <2>1. At(m, "session") /\ Turns(m, ok, go(req[m].held, req[m].saw)) /\ Quiet /\ UNCHANGED <<nonces, past>>
      BY <1>3, <1>10 DEF OpensSession, Silent
    <2>2. mail[m].endpoint # "config"
      BY <1>1, <2>1, DeliveringAt DEF At
    <2> HIDE DEF ok
    <2> QED BY <1>2, <1>3, <2>1, <2>2, Turning
  <1>11. CASE ChecksDevice(m)
    <2> DEFINE ok == bound
    <2>1. At(m, "device") /\ Turns(m, ok, go(req[m].held, req[m].saw)) /\ Quiet /\ UNCHANGED <<nonces, past>>
      BY <1>3, <1>11 DEF ChecksDevice, Silent
    <2>2. mail[m].endpoint # "config"
      BY <1>1, <2>1, DeliveringAt DEF At
    <2> HIDE DEF ok
    <2> QED BY <1>2, <1>3, <2>1, <2>2, Turning
  <1>12. CASE ChecksUser(m)
    <2> DEFINE ok == bound /\ Fresh(m)
    <2>1. At(m, "user") /\ Turns(m, ok, go(req[m].held, req[m].saw)) /\ SavesNonce(m, ok) /\ Quiet
      BY <1>3, <1>12 DEF ChecksUser
    <2>2. \/ UNCHANGED <<nonces, past>>
          \/ Near(m) /\ Remembers(m) /\ past' = [past EXCEPT !.heard[m] = now]
      BY <2>1 DEF SavesNonce, Fresh
    <2>3. mail[m].endpoint # "config"
      BY <1>1, <2>1, DeliveringAt DEF At
    <2> HIDE DEF ok
    <2> QED BY <1>3, <2>1, <2>2, <2>3, Turning
  <1>13. CASE ReadsPaper(m)
    <2>1. At(m, "paper") /\ Turns(m, paper # 0, go(req[m].held, paper)) /\ Silent
      BY <1>3, <1>13 DEF ReadsPaper
    <2>2. mail[m].endpoint = "config" => DeliveryIsSound(go(req[m].held, paper), mail[m].key)
      <3> SUFFICES ASSUME mail[m].endpoint = "config" PROVE DeliveryIsSound(go(req[m].held, paper), mail[m].key)
        OBVIOUS
      <3>1. ToPhase(Tail(req[m].left)) /\ req[m].held = mail[m].key
        BY <1>1, <2>1, DeliveringAt DEF At, DeliveryIsSound
      <3>2. mail[m].key # 0
        BY <1>2 DEF IInv, Typed, TypeOK, Sealed
      <3>3. row = req[m].held /\ row \notin past.strays => paper = past.issued
        BY <3>1, <3>2 DEF IInv, RowIsOfExam
      <3> QED BY <3>1, <3>3 DEF DeliveryIsSound
    <2> QED BY <1>2, <1>3, <2>1, <2>2, Turning DEF Silent
  <1>14. CASE ChecksPhase(m)
    <2>1. At(m, "phase") /\ Turns(m, phase \in Matrix.config, go(req[m].held, req[m].saw)) /\ Silent
      BY <1>3, <1>14 DEF ChecksPhase
    <2>2. mail[m].endpoint = "config" => DeliveryIsSound(go(req[m].held, req[m].saw), mail[m].key)
      BY <1>1, <2>1, DeliveringAt DEF At, DeliveryIsSound
    <2> QED BY <1>3, <2>1, <2>2, Turning DEF Silent
  <1>15. CASE Works(m)
    <2>1. PICK call \in {"languages", "report", "messages", "question"} : At(m, call)
      BY <1>15 DEF Works
    <2>2. Turns(m, TRUE, go(req[m].held, req[m].saw)) /\ Quiet /\ UNCHANGED <<nonces, past>>
      BY <1>3, <1>15 DEF Works, Silent
    <2>3. mail[m].endpoint # "config"
      BY <1>1, <2>1, DeliveringAt DEF At
    <2> QED BY <1>3, <2>1, <2>2, <2>3, Turning
  <1> QED BY <1>4, <1>5, <1>6, <1>7, <1>8, <1>9, <1>10, <1>11, <1>12, <1>13, <1>14, <1>15

\* The last call: what it hands out or stores.
LEMMA Ending ==
  ASSUME IInv, NEW m \in Messages, HandsPaper(m) \/ HandsKey(m) \/ StoresCode(m)
  PROVE  IInv'
  <1> USE BoundsAssumption
  <1>1. /\ req[m].left # <<>> /\ UNCHANGED <<now, exam, machine, mail, nonces, past>>
        /\ req' = [req EXCEPT ![m] = Over]
    BY DEF HandsPaper, HandsKey, StoresCode, Ends, At, Turns
  <1>2. Over.left = <<>>
    BY DEF Over
  <1>3. /\ HandlerIsSound(m) /\ req[m] \in Handlers /\ \A c : Head(req[m].left) = c => Has(req[m].left, c)
        /\ ExamIsWhole
    BY <1>1, Advancing DEF IInv, Typed, Handlers
  <1>4. EffectIsSound'
    <2>1. CASE HandsPaper(m)
      <3> SUFFICES ASSUME effect' # None PROVE EffectIsSound'
        BY DEF EffectIsSound, PaperIsOfExam, NothingBeforeStart
      <3>1. /\ effect'.what = mail[m].endpoint /\ effect'.of = req[m].saw /\ effect'.exam = past.issued
            /\ effect'.stray = (past.resetting \/ mail[m].key \in past.strays) /\ row = req[m].held
            /\ Head(req[m].left) = "row"
        BY <2>1 DEF HandsPaper, Ends, SameRow, At
      <3>2. mail[m].endpoint \notin {"key", "code"}
        BY <1>1, <1>3, <3>1 DEF HandlerIsSound
      <3>3. mail[m].endpoint = "config" /\ mail[m].key \notin past.strays => req[m].saw = past.issued
        BY <1>1, <3>1, DeliveringAt DEF DeliveryIsSound
      <3> QED BY <3>1, <3>2, <3>3 DEF EffectIsSound, PaperIsOfExam, NothingBeforeStart
    <2>2. CASE HandsKey(m)
      <3> SUFFICES ASSUME effect' # None PROVE EffectIsSound'
        BY DEF EffectIsSound, PaperIsOfExam, NothingBeforeStart
      <3>1. /\ effect'.what = "key" /\ effect'.of = examKey /\ effect'.started = past.started /\ examKey # 0
            /\ effect'.stray = (past.resetting \/ mail[m].key \in past.strays)
            /\ effect'.spans = (req[m].exam # past.issued) /\ Head(req[m].left) = "examKey"
        BY <2>2 DEF HandsKey, Ends, At
      <3>2. req[m].exam = past.issued => past.started = past.issued \/ past.resetting
        BY <1>1, <1>3, <3>1 DEF HandlerIsSound, OpenedByStart
      <3>3. ~ past.resetting => examKey = past.issued
        BY <1>3, <3>1 DEF ExamIsWhole
      <3> QED BY <3>1, <3>2, <3>3 DEF EffectIsSound, PaperIsOfExam, NothingBeforeStart
    <2>3. CASE StoresCode(m)
      <3> SUFFICES ASSUME effect' # None PROVE EffectIsSound'
        BY DEF EffectIsSound, PaperIsOfExam, NothingBeforeStart
      <3>1. /\ effect'.what = "code" /\ effect'.of = past.issued /\ effect'.started = past.started /\ enrolled
            /\ effect'.stray = (past.resetting \/ mail[m].key \in past.strays)
            /\ effect'.spans = (req[m].exam # past.issued) /\ Head(req[m].left) = "store"
        BY <2>3 DEF StoresCode, Ends, At
      <3>2. req[m].exam = past.issued => past.started = past.issued \/ past.resetting
        BY <1>1, <1>3, <3>1 DEF HandlerIsSound, OpenedByStart
      <3> QED BY <3>1, <3>2 DEF EffectIsSound, PaperIsOfExam, NothingBeforeStart
    <2> QED BY <2>1, <2>2, <2>3
  <1> QED BY <1>1, <1>2, <1>4, Handling

LEMMA Preserved == IInv /\ [Next]_vars => IInv'
  <1> SUFFICES ASSUME IInv, [Next]_vars PROVE IInv'
    OBVIOUS
  <1>1. CASE UNCHANGED vars
    <2>1. UNCHANGED <<now, phase, changedAt, examKey, paper, enrolled, todo, row, bound, key, token, mail,
                      nonces, req, effect, past>>
      BY <1>1 DEF vars, exam, machine
    <2> QED BY <2>1 DEF IInv, Typed, TypeOK, AdminIsSound, ExamIsWhole, RowIsOfExam, NoncesAreKept, HandlerIsSound,
               DeliveryIsSound, OpenedByStart, Has, ToAuth, ToPaper, ToPhase, ToRow, EffectIsSound, PaperIsOfExam,
               NothingBeforeStart
  <1>2. CASE Admin /\ effect' = None
    BY <1>2, Asking, Enrolling, Storing, Advancement, Resetting, Stopping DEF Admin
  <1>3. CASE (Registers \/ SignsIn) /\ effect' = None
    BY <1>3, Registering
  <1>4. CASE Tick /\ effect' = None
    BY <1>4, Passing
  <1>5. ASSUME NEW m \in Messages, effect' = None, Arrives(m) PROVE IInv'
    BY <1>5, Arriving
  <1>6. ASSUME NEW m \in Messages, effect' = None,
               (\E e \in Endpoints, ahead \in 0..Drift : Seals(m, e, ahead)) \/ Forgets(m)
        PROVE  IInv'
    BY <1>6, Passing
  <1>7. ASSUME NEW m \in Messages, Handles(m) PROVE IInv'
    BY <1>7, Calling, Ending DEF Handles
  <1> QED BY <1>1, <1>2, <1>3, <1>4, <1>5, <1>6, <1>7 DEF Next

LEMMA Invariantly == Spec => []IInv
  <1> QED BY Initially, Preserved, PTL DEF Spec

--------------------------------------------------------------------------------
(* The promises *)

\* Every variable keeps to its type, and neither is the key of an exam handed out nor code taken for it
\* before it has started, save to requests let in under an earlier exam and around a reset that has not
\* been completed (exam-phase.middleware.ts, exam.service.ts getExamKey).
THEOREM GateStaysShut == Spec => []GateHolds
  <1>1. IInv => GateHolds
    BY DEF IInv, Typed, EffectIsSound, GateHolds
  <1> QED BY <1>1, Invariantly, PTL

\* A paper handed out is that of the exam that is on, however long its handler took, save to machines
\* that registered during a reset (exam.service.ts getSecureConfig, init.service.ts wipeAllData).
THEOREM PaperStaysOfExam == Spec => []PaperIsOfExam
  <1>1. IInv => PaperIsOfExam
    BY DEF IInv, EffectIsSound
  <1> QED BY <1>1, Invariantly, PTL

\* A request is accepted again only if the machine's clock was not behind its first arrival, or the
\* process restarted between (replay-protection.service.ts verifyAndSaveNonce).
THEOREM NoRequestTwice == Spec => AcceptedOnce
  <1> USE BoundsAssumption, NoneAssumption
  <1> DEFINE Once == \A m \in Messages : past.heard[m] # None /\ nonces[m] = None /\ nonces'[m] # None
                       => mail[m].stamped >= past.heard[m]
  <1>1. ASSUME IInv, [Next]_vars PROVE [Once]_vars
    <2> SUFFICES ASSUME NEW m \in Messages, past.heard[m] # None, nonces[m] = None, nonces'[m] # None
                 PROVE  mail[m].stamped >= past.heard[m]
      OBVIOUS
    <2>1. past.heard[m] + Drift <= now /\ now \in Nat /\ past.heard[m] \in Nat
      BY <1>1 DEF IInv, NoncesAreKept, Typed, TypeOK, Pasts, Times
    <2>2. nonces' # nonces
      OBVIOUS
    <2>3. ~ UNCHANGED vars
      BY <2>2 DEF vars
    <2>4. ~ (Admin /\ nonces' # nonces /\ ~ Restarts)
      BY DEF Admin, Initializes, Advances, Resets, Asks, Enrols, StoresKey, StoresPaper, EntersInitialized, EntersNext,
             Stamps, Wipes, ForgetsKey, ForgetsPaper, EntersUninitialized, Fails, Does, Here, Rest
    <2>5. ~ Restarts
      BY DEF Restarts
    <2>6. ~ (Registers \/ SignsIn \/ Tick)
      BY <2>2 DEF Registers, SignsIn, Tick
    <2>7. ASSUME NEW n \in Messages PROVE ~ (Arrives(n) \/ Forgets(n) \/ \E e \in Endpoints, ahead \in 0..Drift : Seals(n, e, ahead))
      BY <1>1, <2>2 DEF Arrives, Forgets, Seals, IInv, Typed
    <2>8. PICK n \in Messages : Handles(n)
      BY <1>1, <2>2, <2>3, <2>4, <2>5, <2>6, <2>7 DEF Next
    <2>9. nonces' = [nonces EXCEPT ![n] = now + Drift] /\ Near(n) /\ req[n].left # <<>>
      BY <2>2, <2>8 DEF Handles, ChecksFinished, ReadsChange, ChecksWindow, AuthenticatesDevice, ReadsAesKey,
         OpensEnvelope, OpensSession, ChecksDevice, ChecksUser, ReadsPaper, ChecksPhase, Works, HandsPaper, HandsKey,
         StoresCode, Ends, Silent, SavesNonce, Remembers, Fresh, At
    <2>10. n = m
      BY <1>1, <2>9 DEF IInv, Typed
    <2>11. mail[m] \in Sealed /\ mail[m].stamped \in Nat
      BY <1>1, <2>9, <2>10 DEF IInv, HandlerIsSound, Typed, TypeOK, Sealed
    <2> QED BY <2>1, <2>9, <2>10, <2>11 DEF Near
  <1>2. Spec => [][Once]_vars
    BY <1>1, Invariantly, PTL DEF Spec
  <1> QED BY <1>2 DEF AcceptedOnce
================================================================================
