-------------------------- MODULE ExamLifecycleProofs --------------------------
(***************************************************************************)
(* Proofs about ExamLifecycle for any configurations and any bounds: first *)
(* for any number of admins whose requests overlap, then what is           *)
(* guaranteed when one admin drives the exam, one request at a time,       *)
(* whatever fails.                                                         *)
(***************************************************************************)
EXTENDS ExamLifecycle, TLAPS

\* The phase that follows a phase is a phase, and not the first one.
LEMMA NextIsPhase ==
  /\ "UNINITIALIZED" \in DOMAIN NextPhase
  /\ \A p \in DOMAIN NextPhase : NextPhase[p] \in Phases \ {"UNINITIALIZED"}
  BY DEF NextPhase, Phases

--------------------------------------------------------------------------------
(* Typing.  A draft is a configuration from the call that reads or receives it on.               *)

DraftPcs == {"initCommit", "initKey", "initPaper"} \union SavePcs
Sound(r) == r \in Requests /\ (r.at \in DraftPcs => r.draft \in Configs)
Typed == TypeOK /\ \A a \in Admins : Sound(req[a])

\* Every form of request the actions build is sound.
LEMMA SoundForms ==
  ASSUME Typed, NEW a \in Admins
  PROVE  /\ Sound(Idle)
         /\ \A place \in {"check", "persist"}, x \in Phases : Sound(Asks(place, x))
         /\ \A place \in {"initCommit", "saveConfig", "saveTuned"}, c \in Configs : Sound(Drafts(place, c))
         /\ \A k \in Nat : Sound(Recalls("resetKey", k))
         /\ \A place \in {"persist", "stamp", "switch", "initRead", "readPhase"} \union ResetPcs :
              Sound(To(a, place))
         /\ req[a].at \in DraftPcs => \A place \in {"initPaper", "saveKey"} : Sound(To(a, place))
         /\ req[a].at \in DraftPcs =>
              \A place \in {"initKey", "saveMeta"}, k \in Nat : Sound(Holds(a, place, k))
         /\ req[a].at \in DraftPcs => \A k \in Nat : Sound(Wraps(a, "savePaper", k))
  <1> USE DEF Sound, Requests, Phases, DraftPcs, SavePcs, ChangePcs, InitPcs, ResetPcs
  <1>1. Sound(Idle)
    BY DEF Idle
  <1>2. ASSUME NEW place \in {"check", "persist"}, NEW x \in Phases PROVE Sound(Asks(place, x))
    BY DEF Asks, Idle
  <1>3. ASSUME NEW place \in {"initCommit", "saveConfig", "saveTuned"}, NEW c \in Configs
        PROVE  Sound(Drafts(place, c))
    BY DEF Drafts, Idle
  <1>4. ASSUME NEW k \in Nat PROVE Sound(Recalls("resetKey", k))
    BY DEF Recalls, Idle
  <1>5. Sound(req[a])
    BY DEF Typed
  <1>6. ASSUME NEW place \in {"persist", "stamp", "switch", "initRead", "readPhase"} \union ResetPcs
        PROVE  Sound(To(a, place))
    BY <1>5 DEF To
  <1>7. ASSUME req[a].at \in DraftPcs, NEW place \in {"initPaper", "saveKey"} PROVE Sound(To(a, place))
    BY <1>5, <1>7 DEF To
  <1>8. ASSUME req[a].at \in DraftPcs, NEW place \in {"initKey", "saveMeta"}, NEW k \in Nat
        PROVE  Sound(Holds(a, place, k))
    BY <1>5, <1>8 DEF Holds
  <1>9. ASSUME req[a].at \in DraftPcs, NEW k \in Nat PROVE Sound(Wraps(a, "savePaper", k))
    BY <1>5, <1>9 DEF Wraps
  <1> HIDE DEF Sound, DraftPcs
  <1> QED BY <1>1, <1>2, <1>3, <1>4, <1>6, <1>7, <1>8, <1>9

LEMMA SoundMove ==
  ASSUME Typed, NEW a \in Admins, NEW place, NEW next, Moves(a, place, next), Sound(next)
  PROVE  /\ req' \in [Admins -> Requests] /\ \A b \in Admins : Sound(req'[b])
         /\ req[a].at = place
  BY DEF Typed, TypeOK, Moves, Sound

LEMMA InitTyped == Init => Typed
  <1> SUFFICES ASSUME Init PROVE Typed
    OBVIOUS
  <1>1. Sound(Idle)
    BY DEF Sound, Idle, Requests, Phases, DraftPcs, SavePcs
  <1>2. req \in [Admins -> Requests] /\ \A a \in Admins : Sound(req[a])
    BY <1>1 DEF Init, Sound
  <1>3. failures \in 0..MaxFailures
    BY BoundsAssumption DEF Init
  <1> QED
    BY <1>2, <1>3, DefaultAssumption DEF Init, Typed, TypeOK, Phases, Halves

LEMMA TypeStep == Typed /\ [Next]_vars => Typed'
  <1> SUFFICES ASSUME Typed, [Next]_vars PROVE Typed'
    OBVIOUS
  <1> DEFINE SoundReqs == req \in [Admins -> Requests] /\ \A b \in Admins : Sound(req[b])
             Rows == /\ phase \in Phases /\ stamp \in Phases
                     /\ registration \in BOOLEAN /\ switchedBy \in {"phase", "operator"}
                     /\ config \in Configs /\ tuned \in BOOLEAN
                     /\ users \subseteq Structures
                     /\ key \in Nat /\ meta \in Halves /\ cipher \in Halves
                     /\ issued \in Nat /\ failures \in 0..MaxFailures /\ misread \subseteq Admins
  <1>a. Rows /\ SoundReqs
    BY DEF Typed, TypeOK
  <1>b. SUFFICES Rows' /\ SoundReqs'
    BY DEF Typed, TypeOK
  <1>c. \A half \in Halves : half # None => half.key \in Nat
    BY DEF Halves
  <1>d. \A b \in Admins : /\ req[b].target \in Phases /\ req[b].key \in Nat /\ req[b].wraps \in Nat
                          /\ req[b].at \in DraftPcs => req[b].draft \in Configs
    BY <1>a DEF Sound, Requests
  <1>e. \A b \in Admins : \A place, next : Moves(b, place, next) => req[b].at = place
    BY DEF Moves
  <1> HIDE DEF SoundReqs
  <1>1. ASSUME NEW a \in Admins, ChangesPhase(a) PROVE Rows' /\ SoundReqs'
    <2>1. CASE Advance(a)
      <3>1. SoundReqs'
        BY <2>1, SoundForms, SoundMove, <1>e, <1>a, NextIsPhase DEF Advance, SoundReqs, Phases
      <3>2. Rows'
        BY <1>a, <1>e, <2>1 DEF Advance, settings, faults
      <3> QED BY <3>1, <3>2
    <2>2. CASE ReadsPhase(a)
      <3>1. SoundReqs'
        BY <2>2, SoundForms, SoundMove, <1>e DEF ReadsPhase, SoundReqs, Phases
      <3>2. Rows'
        BY <1>a, <1>e, <2>2 DEF ReadsPhase, settings, faults
      <3> QED BY <3>1, <3>2
    <2>3. CASE ChecksPreconditions(a)
      <3>1. SoundReqs'
        BY <2>3, SoundForms, SoundMove, <1>e DEF ChecksPreconditions, SoundReqs
      <3>2. Rows'
        BY <1>a, <1>e, <2>3 DEF ChecksPreconditions, settings, faults
      <3> QED BY <3>1, <3>2
    <2>4. CASE PersistsPhase(a)
      <3>1. SoundReqs'
        BY <2>4, SoundForms, SoundMove, <1>e DEF PersistsPhase, SoundReqs
      <3>2. req[a].target \in Phases
        BY <1>d
      <3>3. Rows'
        BY <1>a, <3>2, <2>4 DEF PersistsPhase, settings, faults
      <3> QED BY <3>1, <3>3
    <2>5. CASE StampsPhase(a)
      <3>1. SoundReqs'
        BY <2>5, SoundForms, SoundMove, <1>e DEF StampsPhase, SoundReqs
      <3>2. req[a].target \in Phases
        BY <1>d
      <3>3. Rows'
        BY <1>a, <3>2, <2>5 DEF StampsPhase, settings, faults
      <3> QED BY <3>1, <3>3
    <2>6. CASE SwitchesRegistration(a)
      <3>1. SoundReqs'
        BY <2>6, SoundForms, SoundMove, <1>e DEF SwitchesRegistration, SoundReqs
      <3>2. Rows'
        BY <1>a, <1>e, <2>6 DEF SwitchesRegistration, settings, faults
      <3> QED BY <3>1, <3>2
    <2>7. CASE MisreadsPhase(a)
      <3>1. PICK place \in {"idle", "readPhase"} : Moves(a, place, Asks("check", "INITIALIZED"))
        BY <2>7 DEF MisreadsPhase
      <3>2. SoundReqs'
        BY <3>1, SoundForms, SoundMove DEF SoundReqs, Phases
      <3>3. Rows'
        BY <1>a, <2>7, BoundsAssumption DEF MisreadsPhase, settings, faults
      <3> QED BY <3>2, <3>3
    <2> QED BY <1>1, <2>1, <2>2, <2>3, <2>4, <2>5, <2>6, <2>7 DEF ChangesPhase
  <1>2. ASSUME NEW a \in Admins, Initializes(a) PROVE Rows' /\ SoundReqs'
    <2>1. CASE StartsInit(a)
      <3>1. SoundReqs'
        BY <2>1, SoundForms, SoundMove, <1>e DEF StartsInit, SoundReqs
      <3>2. Rows'
        BY <1>a, <1>e, <2>1 DEF StartsInit, settings, faults
      <3> QED BY <3>1, <3>2
    <2>2. CASE ReadsConfig(a)
      <3>1. SoundReqs'
        BY <2>2, SoundForms, SoundMove, <1>e, <1>a DEF ReadsConfig, SoundReqs
      <3>2. Rows'
        BY <1>a, <1>e, <2>2 DEF ReadsConfig, settings, faults
      <3> QED BY <3>1, <3>2
    <2>3. CASE CommitsUsers(a)
      <3>1. SoundReqs'
        BY <2>3, SoundForms, SoundMove, <1>e, <1>a DEF CommitsUsers, SoundReqs, DraftPcs
      <3>2. Roster(req[a].draft) \subseteq Structures
        BY <1>d, <2>3, ConfigsAssumption DEF CommitsUsers, DraftPcs, Roster
      <3>3. Rows'
        BY <1>a, <3>2, <2>3 DEF CommitsUsers, settings, faults
      <3> QED BY <3>1, <3>3
    <2>4. CASE RollsBack(a)
      <3>1. SoundReqs'
        BY <2>4, SoundForms, SoundMove, <1>e DEF RollsBack, SoundReqs
      <3>2. Rows'
        BY <1>a, <1>e, <2>4 DEF RollsBack, settings, faults
      <3> QED BY <3>1, <3>2
    <2>5. CASE StoresKey(a)
      <3>1. SoundReqs'
        BY <2>5, SoundForms, SoundMove, <1>e DEF StoresKey, SoundReqs, DraftPcs
      <3>2. req[a].key \in Nat
        BY <1>d
      <3>3. Rows'
        BY <1>a, <3>2, <2>5 DEF StoresKey, settings, faults
      <3> QED BY <3>1, <3>3
    <2>6. CASE StoresFirstPaper(a)
      <3>1. SoundReqs'
        BY <2>6, SoundForms, SoundMove, <1>e DEF StoresFirstPaper, SoundReqs
      <3>2. req[a].draft \in Configs /\ req[a].key \in Nat /\ req[a].wraps \in Nat
        BY <1>d, <1>e, <2>6 DEF StoresFirstPaper, DraftPcs, SavePcs
      <3>3. Rows'
        BY <1>a, <3>2, <2>6 DEF StoresFirstPaper, settings, faults, StoresPaper, Meta, Cipher, Halves
      <3> QED BY <3>1, <3>3
    <2> QED BY <1>2, <2>1, <2>2, <2>3, <2>4, <2>5, <2>6 DEF Initializes, EndsTransaction
  <1>3. ASSUME NEW a \in Admins, Saves(a) PROVE Rows' /\ SoundReqs'
    <2>1. ASSUME NEW c \in Configs, StartsSave(a, c) PROVE Rows' /\ SoundReqs'
      <3>1. SoundReqs'
        BY <2>1, SoundForms, SoundMove, <1>e DEF StartsSave, SoundReqs
      <3>2. Rows'
        BY <1>a, <1>e, <2>1 DEF StartsSave, settings, faults
      <3> QED BY <3>1, <3>2
    <2>2. CASE SavesConfig(a)
      <3>1. SoundReqs'
        BY <2>2, SoundForms, SoundMove, <1>e DEF SavesConfig, SoundReqs, DraftPcs, SavePcs
      <3>2. req[a].draft \in Configs /\ req[a].key \in Nat /\ req[a].wraps \in Nat
        BY <1>d, <1>e, <2>2 DEF SavesConfig, DraftPcs, SavePcs
      <3>3. Rows'
        BY <1>a, <3>2, <2>2 DEF SavesConfig, settings, faults
      <3> QED BY <3>1, <3>3
    <2>3. CASE ReadsKey(a)
      <3>1. SoundReqs'
        BY <2>3, SoundForms, SoundMove, <1>e, <1>a DEF ReadsKey, SoundReqs, DraftPcs, SavePcs
      <3>2. Rows'
        BY <1>a, <1>e, <2>3 DEF ReadsKey, settings, faults
      <3> QED BY <3>1, <3>2
    <2>4. CASE ReadsMeta(a)
      <3>1. SoundReqs'
        BY <2>4, SoundForms, SoundMove, <1>e, <1>a, <1>c DEF ReadsMeta, SoundReqs, DraftPcs, SavePcs
      <3>2. Rows'
        BY <1>a, <1>e, <2>4 DEF ReadsMeta, settings, faults
      <3> QED BY <3>1, <3>2
    <2>5. CASE ReissuesPaper(a)
      <3>1. SoundReqs'
        BY <2>5, SoundForms, SoundMove, <1>e DEF ReissuesPaper, SoundReqs
      <3>2. req[a].draft \in Configs /\ req[a].key \in Nat /\ req[a].wraps \in Nat
        BY <1>d, <1>e, <2>5 DEF ReissuesPaper, DraftPcs, SavePcs
      <3>3. Rows'
        BY <1>a, <3>2, <2>5 DEF ReissuesPaper, settings, faults, StoresPaper, Meta, Cipher, Halves
      <3> QED BY <3>1, <3>3
    <2>6. CASE StartsTuning(a)
      <3>1. PICK c \in Configs : Moves(a, "idle", Drafts("saveTuned", c))
        BY <2>6 DEF StartsTuning
      <3>2. SoundReqs'
        BY <3>1, SoundForms, SoundMove DEF SoundReqs
      <3>3. Rows'
        BY <1>a, <2>6 DEF StartsTuning, settings, faults
      <3> QED BY <3>2, <3>3
    <2>7. CASE SavesTuned(a)
      <3>1. SoundReqs'
        BY <2>7, SoundForms, SoundMove DEF SavesTuned, SoundReqs
      <3>2. req[a].draft \in Configs
        BY <1>d, <1>e, <2>7 DEF SavesTuned, DraftPcs, SavePcs
      <3>3. Rows'
        BY <1>a, <3>2, <2>7 DEF SavesTuned, settings, faults
      <3> QED BY <3>1, <3>3
    <2> QED BY <1>3, <2>1, <2>2, <2>3, <2>4, <2>5, <2>6, <2>7 DEF Saves
  <1>4. ASSUME NEW a \in Admins, Resets(a) PROVE Rows' /\ SoundReqs'
    <2>1. CASE Wipes(a)
      <3>1. SoundReqs'
        BY <2>1, SoundForms, SoundMove, <1>e, <1>a, <1>c DEF Wipes, SoundReqs, OldKey
      <3>2. Rows'
        BY <1>a, <1>e, <2>1 DEF Wipes, settings, faults
      <3> QED BY <3>1, <3>2
    <2>2. CASE PurgesKey(a)
      <3>1. SoundReqs'
        BY <2>2, SoundForms, SoundMove, <1>e DEF PurgesKey, SoundReqs, ResetPcs
      <3>2. Rows'
        BY <1>a, <1>e, <2>2 DEF PurgesKey, settings, faults
      <3> QED BY <3>1, <3>2
    <2>3. CASE PurgesMeta(a)
      <3>1. SoundReqs'
        BY <2>3, SoundForms, SoundMove, <1>e DEF PurgesMeta, SoundReqs, ResetPcs
      <3>2. Rows'
        BY <1>a, <1>e, <2>3 DEF PurgesMeta, settings, faults, Halves
      <3> QED BY <3>1, <3>2
    <2>4. CASE PurgesCipher(a)
      <3>1. SoundReqs'
        BY <2>4, SoundForms, SoundMove, <1>e DEF PurgesCipher, SoundReqs, ResetPcs
      <3>2. Rows'
        BY <1>a, <1>e, <2>4 DEF PurgesCipher, settings, faults, Halves
      <3> QED BY <3>1, <3>2
    <2> QED BY <1>4, <2>1, <2>2, <2>3, <2>4 DEF Resets
  <1>5. ASSUME NEW a \in Admins, Fails(a) PROVE Rows' /\ SoundReqs'
    <2>1. Moves(a, req[a].at, Idle)
      BY <1>5 DEF Fails, Moves
    <2>2. SoundReqs'
      BY <2>1, SoundForms, SoundMove, <1>e DEF SoundReqs
    <2>3. Rows'
      BY <1>5, <1>a, BoundsAssumption DEF Fails, settings, faults
    <2> QED BY <2>2, <2>3
  <1>6. ASSUME NEW a \in Admins, NEW open \in BOOLEAN, SetsRegistration(a, open)
        PROVE  Rows' /\ SoundReqs'
    BY <1>6, <1>a DEF SetsRegistration, SoundReqs, settings, faults
  <1>7. CASE Crash
    <2>1. SoundReqs'
      BY <1>7, SoundForms, AdminsAssumption DEF Crash, SoundReqs, Sound
    <2>2. Rows'
      BY <1>7, <1>a, BoundsAssumption DEF Crash, settings, faults
    <2> QED BY <2>1, <2>2
  <1>8. CASE UNCHANGED vars
    BY <1>8, <1>a DEF vars, settings, faults, SoundReqs
  <1> QED BY <1>1, <1>2, <1>3, <1>4, <1>5, <1>6, <1>7, <1>8 DEF Next

\* Whoever writes one half of a paper writes the other in the same statement, and a purge leaves the
\* half it has not reached alone or alone.
LEMMA WholeStep == PaperIsWhole /\ [Next]_vars => PaperIsWhole'
  <1> SUFFICES ASSUME PaperIsWhole, [Next]_vars PROVE PaperIsWhole'
    OBVIOUS
  <1> USE DEF PaperIsWhole, settings, faults
  <1>1. ASSUME NEW a \in Admins, ChangesPhase(a) PROVE UNCHANGED <<meta, cipher>>
    BY <1>1 DEF ChangesPhase, Advance, ReadsPhase, MisreadsPhase, ChecksPreconditions, PersistsPhase,
         StampsPhase, SwitchesRegistration
  <1>2. ASSUME NEW a \in Admins, NEW wraps, StoresPaper(a, wraps) PROVE PaperIsWhole'
    BY <1>2 DEF StoresPaper, Meta, Cipher
  <1>3. ASSUME NEW a \in Admins, Initializes(a) \/ Saves(a),
               \A wraps : ~ StoresPaper(a, wraps)
        PROVE  UNCHANGED <<meta, cipher>>
    BY <1>3 DEF Initializes, EndsTransaction, StartsInit, ReadsConfig, CommitsUsers, RollsBack, StoresKey,
         StoresFirstPaper, Saves, StartsSave, SavesConfig, ReadsKey, ReadsMeta, ReissuesPaper, StartsTuning, SavesTuned
  <1>4. ASSUME NEW a \in Admins, Resets(a) PROVE PaperIsWhole'
    BY <1>4 DEF Resets, Wipes, PurgesKey, PurgesMeta, PurgesCipher
  <1>5. ASSUME NEW a \in Admins, Fails(a) PROVE PaperIsWhole'
    BY <1>5 DEF Fails
  <1>6. ASSUME NEW a \in Admins, NEW open \in BOOLEAN, SetsRegistration(a, open) PROVE PaperIsWhole'
    BY <1>6 DEF SetsRegistration
  <1>7. CASE Crash
    BY <1>7 DEF Crash
  <1>8. CASE UNCHANGED vars
    BY <1>8 DEF vars
  <1> QED BY <1>1, <1>2, <1>3, <1>4, <1>5, <1>6, <1>7, <1>8 DEF Next

\* Every variable of the exam keeps its type for any number of admins whose requests overlap.
THEOREM TypeCorrect == Spec => []TypeOK
  <1>1. Typed => TypeOK
    BY DEF Typed
  <1> QED BY <1>1, InitTyped, TypeStep, PTL DEF Spec

\* savePreparedPaper writes both halves of the paper in one statement, so that no interleaving of
\* any number of requests, failures and resets pairs a key copy with the ciphertext of another
\* configuration.
THEOREM PaperStaysWhole == Spec => []PaperIsWhole
  <1>1. Init => PaperIsWhole
    BY DEF Init, PaperIsWhole
  <1> QED BY <1>1, WholeStep, PTL DEF Spec

--------------------------------------------------------------------------------
(* One admin, one request at a time *)

\* Where a step leaves the request, field by field, for each form of step.
LEMMA Ends ==
  ASSUME TypeOK, NEW a \in Admins, NEW place, Moves(a, place, Idle)
  PROVE  req[a].at = place /\ req'[a].at = "idle" /\ req'[a].target = "UNINITIALIZED"
  BY DEF Moves, Idle, TypeOK, Requests

LEMMA Continues ==
  ASSUME TypeOK, NEW a \in Admins, NEW place, NEW there, Moves(a, place, To(a, there))
  PROVE  /\ req[a].at = place /\ req'[a].at = there
         /\ req'[a].target = req[a].target /\ req'[a].draft = req[a].draft
         /\ req'[a].key = req[a].key /\ req'[a].wraps = req[a].wraps
  BY DEF Moves, To, TypeOK, Requests

LEMMA AsksFor ==
  ASSUME TypeOK, NEW a \in Admins, NEW place, NEW there, NEW x,
         Moves(a, place, Asks(there, x))
  PROVE  req[a].at = place /\ req'[a].at = there /\ req'[a].target = x
  BY DEF Moves, Asks, Idle, TypeOK, Requests

LEMMA DraftsIt ==
  ASSUME TypeOK, NEW a \in Admins, NEW place, NEW there, NEW x,
         Moves(a, place, Drafts(there, x))
  PROVE  req[a].at = place /\ req'[a].at = there /\ req'[a].draft = x
  BY DEF Moves, Drafts, Idle, TypeOK, Requests

LEMMA RecallsKey ==
  ASSUME TypeOK, NEW a \in Admins, NEW place, NEW there, NEW x,
         Moves(a, place, Recalls(there, x))
  PROVE  /\ req[a].at = place /\ req'[a].at = there /\ req'[a].key = x
         /\ req'[a].target = "UNINITIALIZED"
  BY DEF Moves, Recalls, Idle, TypeOK, Requests

LEMMA HoldsKey ==
  ASSUME TypeOK, NEW a \in Admins, NEW place, NEW there, NEW x,
         Moves(a, place, Holds(a, there, x))
  PROVE  req[a].at = place /\ req'[a].at = there /\ req'[a].key = x /\ req'[a].draft = req[a].draft
  BY DEF Moves, Holds, TypeOK, Requests

LEMMA WrapsKey ==
  ASSUME TypeOK, NEW a \in Admins, NEW place, NEW there, NEW x,
         Moves(a, place, Wraps(a, there, x))
  PROVE  /\ req[a].at = place /\ req'[a].at = there /\ req'[a].wraps = x
         /\ req'[a].draft = req[a].draft /\ req'[a].key = req[a].key
  BY DEF Moves, Wraps, TypeOK, Requests

--------------------------------------------------------------------------------
\* A save or an enrolment always has a configuration in hand.
LEMMA DraftIsConfig ==
  ASSUME Typed, NEW a \in Admins, req[a].at \in DraftPcs
  PROVE  req[a].draft \in Configs
  BY DEF Typed, Sound

\* savePreparedPaper leaves both halves there.
LEMMA PaperIsStored ==
  ASSUME Typed, NEW a \in Admins, req[a].at \in DraftPcs, NEW wraps \in Nat, StoresPaper(a, wraps)
  PROVE  /\ meta' # None /\ meta'.config = req[a].draft /\ meta'.key = wraps
         /\ cipher' # None /\ cipher'.config = req[a].draft /\ cipher'.key = req[a].key
  <1>1. req[a].draft \in Configs /\ req[a].key \in Nat
    BY DraftIsConfig DEF Typed, Sound, Requests
  <1> QED BY <1>1, NoneAssumption DEF StoresPaper, Meta, Cipher

\* A phase change that is under way.
Closing(r) == r.at \in {"persist", "stamp", "switch"}
\* How far a reset has got.
ResetInv(r) ==
  /\ r.at \in ResetPcs => users = {} /\ r.target = "UNINITIALIZED"
  /\ r.at \in {"resetMeta", "resetCipher"} => key = 0
  /\ r.at = "resetCipher" => meta = None
  /\ Closing(r) /\ r.target = "UNINITIALIZED" => users = {} /\ key = 0 /\ meta = None /\ cipher = None

\* Where the phase a change asks for comes from.
PhaseInv(r) ==
  /\ misread # {} => failures # 0
  /\ r.at = "check" => r.target = "INITIALIZED" /\ (phase = "UNINITIALIZED" \/ misread # {})
  /\ r.at = "persist" /\ r.target # "UNINITIALIZED" =>
       \/ phase \in DOMAIN NextPhase /\ r.target = NextPhase[phase]
       \/ misread # {} /\ r.target = "INITIALIZED" /\ NothingMissing
  /\ r.at \in {"stamp", "switch"} => phase = r.target

\* Who is enrolled, who is being enrolled, and what an upload may replace.
RosterInv(r) ==
  /\ RosterIsConfigured
  /\ r.at \in {"initRead", "initCommit"} => users = {}
  /\ r.at \in {"initCommit", "initKey", "initPaper", "saveKey", "saveMeta", "savePaper"}
       => r.draft = config
  /\ r.at = "saveTuned" => Content[r.draft] = Content[config]
  /\ r.at = "saveConfig" => users = {} \/ Frozen[r.draft] = Frozen[config]

\* The keys a request carries are those of the rows.
HeldInv(r) ==
  /\ r.at \in {"initKey", "initPaper", "saveMeta", "savePaper"} => r.key # 0
  /\ r.at \in {"initPaper", "saveMeta", "savePaper"} => r.key = key
  /\ r.at = "savePaper" => meta # None /\ r.wraps = meta.key

\* When the switch of the registration may differ from the phase.
RegistrationInv(r) ==
  failures = 0 /\ switchedBy = "phase" =>
    /\ r.at \notin {"stamp", "switch"} => (registration <=> phase = "INITIALIZED")
    /\ r.at = "stamp" /\ r.target \in {"IN_PROGRESS", "FINISHED"} => ~ registration

\* When the stored time may be that of an earlier phase.
StampInv(r) == failures = 0 /\ r.at # "stamp" => stamp = phase

\* When the paper may lag behind the configuration.
PaperInv(r) ==
  failures = 0 /\ cipher # None =>
    /\ r.at \notin {"saveKey", "saveMeta", "savePaper"} =>
         Content[cipher.config] = Content[config] /\ (cipher.config = config \/ tuned)
    /\ r.at \notin ResetPcs => key # 0 /\ meta # None

\* The stored key opens what is stored.
Opens == (meta # None => meta.key = key) /\ (cipher # None => cipher.key = key)
Ready == key # 0 /\ meta # None /\ cipher # None

\* What is there before and after at most one failure.
ReadyInv(r) ==
  /\ failures = 0 /\ r.at \notin ResetPcs =>
       /\ r.at # "initPaper" => Opens
       /\ r.at \in {"initKey", "initPaper"} => phase = "UNINITIALIZED"
       /\ users = {} => phase = "UNINITIALIZED" \/ Closing(r)
       /\ Closing(r) /\ r.target # "UNINITIALIZED" => users # {}
  /\ failures <= 1 =>
       /\ users # {} /\ r.at \notin {"initKey", "initPaper"} /\ phase # "UNINITIALIZED" => Ready
       /\ Closing(r) /\ r.target = "INITIALIZED" => Ready /\ users # {}
--------------------------------------------------------------------------------
LEMMA ResetStep ==
  ASSUME SingleAdmin, Typed, NEW a \in Admins, ResetInv(req[a]), PhaseInv(req[a]), [Next]_vars
  PROVE  ResetInv(req[a])'
  <1> USE DEF ResetInv, PhaseInv, Closing, ResetPcs, settings, faults
  <1>0. TypeOK /\ failures \in Nat /\ MaxFailures \in Nat
    BY BoundsAssumption DEF Typed, TypeOK
  <1>1. CASE ChangesPhase(a)
    <2>1. CASE Advance(a)
      BY <1>0, <2>1, AsksFor, NextIsPhase DEF Advance, NextPhase
    <2>2. CASE ReadsPhase(a)
      BY <1>0, <2>2, AsksFor, Ends DEF ReadsPhase
    <2>3. CASE ChecksPreconditions(a)
      BY <1>0, <2>3, Continues, Ends DEF ChecksPreconditions, NothingMissing, NextPhase
    <2>4. CASE PersistsPhase(a)
      BY <1>0, <2>4, Continues DEF PersistsPhase, NextPhase
    <2>5. CASE StampsPhase(a)
      BY <1>0, <2>5, Continues, Ends DEF StampsPhase
    <2>6. CASE SwitchesRegistration(a)
      BY <1>0, <2>6, Ends DEF SwitchesRegistration
    <2>7. CASE MisreadsPhase(a)
      <3>1. PICK place \in {"idle", "readPhase"} : Moves(a, place, Asks("check", "INITIALIZED"))
        BY <2>7 DEF MisreadsPhase
      <3> QED BY <1>0, <2>7, <3>1, AsksFor DEF MisreadsPhase, NothingMissing
    <2> QED BY <1>1, <2>1, <2>2, <2>3, <2>4, <2>5, <2>6, <2>7 DEF ChangesPhase
  <1>2. CASE Initializes(a)
    <2>1. CASE StartsInit(a)
      BY <1>0, <2>1, Continues DEF StartsInit
    <2>2. CASE ReadsConfig(a)
      BY <1>0, <2>2, DraftsIt, Ends DEF ReadsConfig
    <2>3. CASE CommitsUsers(a)
      BY <1>0, <2>3, HoldsKey DEF CommitsUsers
    <2>4. CASE RollsBack(a)
      BY <1>0, <2>4, Ends DEF RollsBack
    <2>5. CASE StoresKey(a)
      BY <1>0, <2>5, Continues DEF StoresKey
    <2>6. CASE StoresFirstPaper(a)
      BY <1>0, <2>6, Continues DEF StoresFirstPaper, StoresPaper, Meta, Cipher
    <2> QED BY <1>2, <2>1, <2>2, <2>3, <2>4, <2>5, <2>6 DEF Initializes, EndsTransaction
  <1>3. CASE Saves(a)
    <2>1. ASSUME NEW c \in Configs, StartsSave(a, c) PROVE ResetInv(req[a])'
      BY <1>0, <2>1, DraftsIt DEF StartsSave, KeepsStructure
    <2>2. CASE SavesConfig(a)
      BY <1>0, <2>2, Continues DEF SavesConfig
    <2>3. CASE ReadsKey(a)
      BY <1>0, <2>3, HoldsKey, Ends DEF ReadsKey
    <2>4. CASE ReadsMeta(a)
      BY <1>0, <2>4, WrapsKey, Ends DEF ReadsMeta
    <2>5. CASE ReissuesPaper(a)
      BY <1>0, <2>5, Ends DEF ReissuesPaper, StoresPaper, Meta, Cipher
    <2>6. CASE StartsTuning(a)
      <3>1. PICK c \in Configs : Content[c] = Content[config] /\ Moves(a, "idle", Drafts("saveTuned", c))
        BY <2>6 DEF StartsTuning
      <3> QED BY <1>0, <2>6, <3>1, DraftsIt DEF StartsTuning
    <2>7. CASE SavesTuned(a)
      BY <1>0, <2>7, Ends DEF SavesTuned
    <2> QED BY <1>3, <2>1, <2>2, <2>3, <2>4, <2>5, <2>6, <2>7 DEF Saves
  <1>4. CASE Resets(a)
    <2>1. CASE Wipes(a)
      BY <1>0, <2>1, RecallsKey DEF Wipes
    <2>2. CASE PurgesKey(a)
      BY <1>0, <2>2, Continues DEF PurgesKey
    <2>3. CASE PurgesMeta(a)
      BY <1>0, <2>3, Continues DEF PurgesMeta
    <2>4. CASE PurgesCipher(a)
      BY <1>0, <2>4, Continues DEF PurgesCipher
    <2> QED BY <1>4, <2>1, <2>2, <2>3, <2>4 DEF Resets
  <1>5. CASE Fails(a)
    BY <1>0, <1>5 DEF Fails, Idle, TypeOK
  <1>6. ASSUME NEW open \in BOOLEAN, SetsRegistration(a, open) PROVE ResetInv(req[a])'
    BY <1>6 DEF SetsRegistration
  <1>7. CASE Crash
    BY <1>0, <1>7 DEF Crash, Idle, SingleAdmin
  <1>8. CASE UNCHANGED vars
    BY <1>8 DEF vars
  <1> QED BY <1>1, <1>2, <1>3, <1>4, <1>5, <1>6, <1>7, <1>8 DEF Next, SingleAdmin

LEMMA PhaseStep ==
  ASSUME SingleAdmin, Typed, NEW a \in Admins, ResetInv(req[a]), PhaseInv(req[a]), [Next]_vars
  PROVE  PhaseInv(req[a])'
  <1> USE DEF PhaseInv, ResetInv, Closing, ResetPcs, settings, faults
  <1>0. TypeOK /\ failures \in Nat /\ MaxFailures \in Nat
    BY BoundsAssumption DEF Typed, TypeOK
  <1>1. CASE ChangesPhase(a)
    <2>1. CASE Advance(a)
      BY <1>0, <2>1, AsksFor, NextIsPhase DEF Advance, NextPhase
    <2>2. CASE ReadsPhase(a)
      BY <1>0, <2>2, AsksFor, Ends DEF ReadsPhase
    <2>3. CASE ChecksPreconditions(a)
      BY <1>0, <2>3, Continues, Ends DEF ChecksPreconditions, NothingMissing, NextPhase
    <2>4. CASE PersistsPhase(a)
      BY <1>0, <2>4, Continues DEF PersistsPhase, NextPhase
    <2>5. CASE StampsPhase(a)
      BY <1>0, <2>5, Continues, Ends DEF StampsPhase
    <2>6. CASE SwitchesRegistration(a)
      BY <1>0, <2>6, Ends DEF SwitchesRegistration
    <2>7. CASE MisreadsPhase(a)
      <3>1. PICK place \in {"idle", "readPhase"} : Moves(a, place, Asks("check", "INITIALIZED"))
        BY <2>7 DEF MisreadsPhase
      <3> QED BY <1>0, <2>7, <3>1, AsksFor DEF MisreadsPhase, NothingMissing
    <2> QED BY <1>1, <2>1, <2>2, <2>3, <2>4, <2>5, <2>6, <2>7 DEF ChangesPhase
  <1>2. CASE Initializes(a)
    <2>1. CASE StartsInit(a)
      BY <1>0, <2>1, Continues DEF StartsInit
    <2>2. CASE ReadsConfig(a)
      BY <1>0, <2>2, DraftsIt, Ends DEF ReadsConfig
    <2>3. CASE CommitsUsers(a)
      BY <1>0, <2>3, HoldsKey DEF CommitsUsers
    <2>4. CASE RollsBack(a)
      BY <1>0, <2>4, Ends DEF RollsBack
    <2>5. CASE StoresKey(a)
      BY <1>0, <2>5, Continues DEF StoresKey
    <2>6. CASE StoresFirstPaper(a)
      BY <1>0, <2>6, Continues DEF StoresFirstPaper, StoresPaper, Meta, Cipher
    <2> QED BY <1>2, <2>1, <2>2, <2>3, <2>4, <2>5, <2>6 DEF Initializes, EndsTransaction
  <1>3. CASE Saves(a)
    <2>1. ASSUME NEW c \in Configs, StartsSave(a, c) PROVE PhaseInv(req[a])'
      BY <1>0, <2>1, DraftsIt DEF StartsSave, KeepsStructure
    <2>2. CASE SavesConfig(a)
      BY <1>0, <2>2, Continues DEF SavesConfig
    <2>3. CASE ReadsKey(a)
      BY <1>0, <2>3, HoldsKey, Ends DEF ReadsKey
    <2>4. CASE ReadsMeta(a)
      BY <1>0, <2>4, WrapsKey, Ends DEF ReadsMeta
    <2>5. CASE ReissuesPaper(a)
      BY <1>0, <2>5, Ends DEF ReissuesPaper, StoresPaper, Meta, Cipher
    <2>6. CASE StartsTuning(a)
      <3>1. PICK c \in Configs : Content[c] = Content[config] /\ Moves(a, "idle", Drafts("saveTuned", c))
        BY <2>6 DEF StartsTuning
      <3> QED BY <1>0, <2>6, <3>1, DraftsIt DEF StartsTuning
    <2>7. CASE SavesTuned(a)
      BY <1>0, <2>7, Ends DEF SavesTuned
    <2> QED BY <1>3, <2>1, <2>2, <2>3, <2>4, <2>5, <2>6, <2>7 DEF Saves
  <1>4. CASE Resets(a)
    <2>1. CASE Wipes(a)
      BY <1>0, <2>1, RecallsKey DEF Wipes
    <2>2. CASE PurgesKey(a)
      BY <1>0, <2>2, Continues DEF PurgesKey
    <2>3. CASE PurgesMeta(a)
      BY <1>0, <2>3, Continues DEF PurgesMeta
    <2>4. CASE PurgesCipher(a)
      BY <1>0, <2>4, Continues DEF PurgesCipher
    <2> QED BY <1>4, <2>1, <2>2, <2>3, <2>4 DEF Resets
  <1>5. CASE Fails(a)
    BY <1>0, <1>5 DEF Fails, Idle, TypeOK
  <1>6. ASSUME NEW open \in BOOLEAN, SetsRegistration(a, open) PROVE PhaseInv(req[a])'
    BY <1>6 DEF SetsRegistration
  <1>7. CASE Crash
    BY <1>0, <1>7 DEF Crash, Idle, SingleAdmin
  <1>8. CASE UNCHANGED vars
    BY <1>8 DEF vars, NothingMissing
  <1> QED BY <1>1, <1>2, <1>3, <1>4, <1>5, <1>6, <1>7, <1>8 DEF Next, SingleAdmin

LEMMA RosterStep ==
  ASSUME SingleAdmin, Typed, NEW a \in Admins, RosterInv(req[a]), [Next]_vars
  PROVE  RosterInv(req[a])'
  <1> USE DEF RosterInv, RosterIsConfigured, ResetPcs, settings, faults
  <1>0. TypeOK /\ failures \in Nat /\ MaxFailures \in Nat
    BY BoundsAssumption DEF Typed, TypeOK
  <1>1. CASE ChangesPhase(a)
    <2>1. CASE Advance(a)
      BY <1>0, <2>1, AsksFor, NextIsPhase DEF Advance, NextPhase
    <2>2. CASE ReadsPhase(a)
      BY <1>0, <2>2, AsksFor, Ends DEF ReadsPhase
    <2>3. CASE ChecksPreconditions(a)
      BY <1>0, <2>3, Continues, Ends DEF ChecksPreconditions, NothingMissing, NextPhase
    <2>4. CASE PersistsPhase(a)
      BY <1>0, <2>4, Continues DEF PersistsPhase, NextPhase
    <2>5. CASE StampsPhase(a)
      BY <1>0, <2>5, Continues, Ends DEF StampsPhase
    <2>6. CASE SwitchesRegistration(a)
      BY <1>0, <2>6, Ends DEF SwitchesRegistration
    <2>7. CASE MisreadsPhase(a)
      <3>1. PICK place \in {"idle", "readPhase"} : Moves(a, place, Asks("check", "INITIALIZED"))
        BY <2>7 DEF MisreadsPhase
      <3> QED BY <1>0, <2>7, <3>1, AsksFor DEF MisreadsPhase, NothingMissing
    <2> QED BY <1>1, <2>1, <2>2, <2>3, <2>4, <2>5, <2>6, <2>7 DEF ChangesPhase
  <1>2. CASE Initializes(a)
    <2>1. CASE StartsInit(a)
      BY <1>0, <2>1, Continues DEF StartsInit
    <2>2. CASE ReadsConfig(a)
      BY <1>0, <2>2, DraftsIt, Ends DEF ReadsConfig
    <2>3. CASE CommitsUsers(a)
      BY <1>0, <2>3, HoldsKey DEF CommitsUsers, Roster
    <2>4. CASE RollsBack(a)
      BY <1>0, <2>4, Ends DEF RollsBack
    <2>5. CASE StoresKey(a)
      BY <1>0, <2>5, Continues DEF StoresKey
    <2>6. CASE StoresFirstPaper(a)
      BY <1>0, <2>6, Continues DEF StoresFirstPaper, StoresPaper, Meta, Cipher
    <2> QED BY <1>2, <2>1, <2>2, <2>3, <2>4, <2>5, <2>6 DEF Initializes, EndsTransaction
  <1>3. CASE Saves(a)
    <2>1. ASSUME NEW c \in Configs, StartsSave(a, c) PROVE RosterInv(req[a])'
      BY <1>0, <2>1, DraftsIt DEF StartsSave, KeepsStructure
    <2>2. CASE SavesConfig(a)
      <3>1. req[a].at = "saveConfig"
        BY <1>0, <2>2, Continues DEF SavesConfig
      <3> QED BY <1>0, <2>2, <3>1, Continues DEF SavesConfig
    <2>3. CASE ReadsKey(a)
      BY <1>0, <2>3, HoldsKey, Ends DEF ReadsKey
    <2>4. CASE ReadsMeta(a)
      BY <1>0, <2>4, WrapsKey, Ends DEF ReadsMeta
    <2>5. CASE ReissuesPaper(a)
      BY <1>0, <2>5, Ends DEF ReissuesPaper, StoresPaper, Meta, Cipher
    <2>6. CASE StartsTuning(a)
      <3>1. PICK c \in Configs : Content[c] = Content[config] /\ Moves(a, "idle", Drafts("saveTuned", c))
        BY <2>6 DEF StartsTuning
      <3> QED BY <1>0, <2>6, <3>1, DraftsIt DEF StartsTuning
    <2>7. CASE SavesTuned(a)
      <3>1. req[a].at = "saveTuned" /\ req'[a].at = "idle"
        BY <1>0, <2>7, Ends DEF SavesTuned
      <3>2. req[a].draft \in Configs /\ config \in Configs
        BY <3>1, DraftIsConfig DEF DraftPcs, SavePcs, Typed, TypeOK
      <3>3. Frozen[req[a].draft] = Frozen[config]
        BY <3>1, <3>2, ContentAssumption
      <3> QED BY <2>7, <3>1, <3>3 DEF SavesTuned
    <2> QED BY <1>3, <2>1, <2>2, <2>3, <2>4, <2>5, <2>6, <2>7 DEF Saves
  <1>4. CASE Resets(a)
    <2>1. CASE Wipes(a)
      BY <1>0, <2>1, RecallsKey DEF Wipes
    <2>2. CASE PurgesKey(a)
      BY <1>0, <2>2, Continues DEF PurgesKey
    <2>3. CASE PurgesMeta(a)
      BY <1>0, <2>3, Continues DEF PurgesMeta
    <2>4. CASE PurgesCipher(a)
      BY <1>0, <2>4, Continues DEF PurgesCipher
    <2> QED BY <1>4, <2>1, <2>2, <2>3, <2>4 DEF Resets
  <1>5. CASE Fails(a)
    BY <1>0, <1>5 DEF Fails, Idle, TypeOK
  <1>6. ASSUME NEW open \in BOOLEAN, SetsRegistration(a, open) PROVE RosterInv(req[a])'
    BY <1>6 DEF SetsRegistration
  <1>7. CASE Crash
    BY <1>0, <1>7 DEF Crash, Idle, SingleAdmin
  <1>8. CASE UNCHANGED vars
    BY <1>8 DEF vars
  <1> QED BY <1>1, <1>2, <1>3, <1>4, <1>5, <1>6, <1>7, <1>8 DEF Next, SingleAdmin

LEMMA HeldStep ==
  ASSUME SingleAdmin, Typed, NEW a \in Admins, HeldInv(req[a]), [Next]_vars
  PROVE  HeldInv(req[a])'
  <1> USE DEF HeldInv, ResetPcs, settings, faults
  <1>0. TypeOK /\ failures \in Nat /\ MaxFailures \in Nat
    BY BoundsAssumption DEF Typed, TypeOK
  <1>1. CASE ChangesPhase(a)
    <2>1. CASE Advance(a)
      BY <1>0, <2>1, AsksFor, NextIsPhase DEF Advance, NextPhase
    <2>2. CASE ReadsPhase(a)
      BY <1>0, <2>2, AsksFor, Ends DEF ReadsPhase
    <2>3. CASE ChecksPreconditions(a)
      BY <1>0, <2>3, Continues, Ends DEF ChecksPreconditions, NothingMissing, NextPhase
    <2>4. CASE PersistsPhase(a)
      BY <1>0, <2>4, Continues DEF PersistsPhase, NextPhase
    <2>5. CASE StampsPhase(a)
      BY <1>0, <2>5, Continues, Ends DEF StampsPhase
    <2>6. CASE SwitchesRegistration(a)
      BY <1>0, <2>6, Ends DEF SwitchesRegistration
    <2>7. CASE MisreadsPhase(a)
      <3>1. PICK place \in {"idle", "readPhase"} : Moves(a, place, Asks("check", "INITIALIZED"))
        BY <2>7 DEF MisreadsPhase
      <3> QED BY <1>0, <2>7, <3>1, AsksFor DEF MisreadsPhase, NothingMissing
    <2> QED BY <1>1, <2>1, <2>2, <2>3, <2>4, <2>5, <2>6, <2>7 DEF ChangesPhase
  <1>2. CASE Initializes(a)
    <2>1. CASE StartsInit(a)
      BY <1>0, <2>1, Continues DEF StartsInit
    <2>2. CASE ReadsConfig(a)
      BY <1>0, <2>2, DraftsIt, Ends DEF ReadsConfig
    <2>3. CASE CommitsUsers(a)
      BY <1>0, <2>3, HoldsKey DEF CommitsUsers, Typed, TypeOK
    <2>4. CASE RollsBack(a)
      BY <1>0, <2>4, Ends DEF RollsBack
    <2>5. CASE StoresKey(a)
      BY <1>0, <2>5, Continues DEF StoresKey
    <2>6. CASE StoresFirstPaper(a)
      BY <1>0, <2>6, Continues DEF StoresFirstPaper, StoresPaper, Meta, Cipher
    <2> QED BY <1>2, <2>1, <2>2, <2>3, <2>4, <2>5, <2>6 DEF Initializes, EndsTransaction
  <1>3. CASE Saves(a)
    <2>1. ASSUME NEW c \in Configs, StartsSave(a, c) PROVE HeldInv(req[a])'
      BY <1>0, <2>1, DraftsIt DEF StartsSave, KeepsStructure
    <2>2. CASE SavesConfig(a)
      BY <1>0, <2>2, Continues DEF SavesConfig
    <2>3. CASE ReadsKey(a)
      BY <1>0, <2>3, HoldsKey, Ends DEF ReadsKey
    <2>4. CASE ReadsMeta(a)
      BY <1>0, <2>4, WrapsKey, Ends DEF ReadsMeta
    <2>5. CASE ReissuesPaper(a)
      BY <1>0, <2>5, Ends DEF ReissuesPaper, StoresPaper, Meta, Cipher
    <2>6. CASE StartsTuning(a)
      <3>1. PICK c \in Configs : Content[c] = Content[config] /\ Moves(a, "idle", Drafts("saveTuned", c))
        BY <2>6 DEF StartsTuning
      <3> QED BY <1>0, <2>6, <3>1, DraftsIt DEF StartsTuning
    <2>7. CASE SavesTuned(a)
      BY <1>0, <2>7, Ends DEF SavesTuned
    <2> QED BY <1>3, <2>1, <2>2, <2>3, <2>4, <2>5, <2>6, <2>7 DEF Saves
  <1>4. CASE Resets(a)
    <2>1. CASE Wipes(a)
      BY <1>0, <2>1, RecallsKey DEF Wipes
    <2>2. CASE PurgesKey(a)
      BY <1>0, <2>2, Continues DEF PurgesKey
    <2>3. CASE PurgesMeta(a)
      BY <1>0, <2>3, Continues DEF PurgesMeta
    <2>4. CASE PurgesCipher(a)
      BY <1>0, <2>4, Continues DEF PurgesCipher
    <2> QED BY <1>4, <2>1, <2>2, <2>3, <2>4 DEF Resets
  <1>5. CASE Fails(a)
    BY <1>0, <1>5 DEF Fails, Idle, TypeOK
  <1>6. ASSUME NEW open \in BOOLEAN, SetsRegistration(a, open) PROVE HeldInv(req[a])'
    BY <1>6 DEF SetsRegistration
  <1>7. CASE Crash
    BY <1>0, <1>7 DEF Crash, Idle, SingleAdmin
  <1>8. CASE UNCHANGED vars
    BY <1>8 DEF vars
  <1> QED BY <1>1, <1>2, <1>3, <1>4, <1>5, <1>6, <1>7, <1>8 DEF Next, SingleAdmin

LEMMA RegistrationStep ==
  ASSUME SingleAdmin, Typed, NEW a \in Admins, PhaseInv(req[a]), RegistrationInv(req[a]), [Next]_vars
  PROVE  RegistrationInv(req[a])'
  <1> USE DEF RegistrationInv, PhaseInv, ResetPcs, settings, faults
  <1>0. TypeOK /\ failures \in Nat /\ MaxFailures \in Nat
    BY BoundsAssumption DEF Typed, TypeOK
  <1>1. CASE ChangesPhase(a)
    <2>1. CASE Advance(a)
      BY <1>0, <2>1, AsksFor, NextIsPhase DEF Advance, NextPhase
    <2>2. CASE ReadsPhase(a)
      BY <1>0, <2>2, AsksFor, Ends DEF ReadsPhase
    <2>3. CASE ChecksPreconditions(a)
      BY <1>0, <2>3, Continues, Ends DEF ChecksPreconditions, NothingMissing, NextPhase
    <2>4. CASE PersistsPhase(a)
      BY <1>0, <2>4, Continues DEF PersistsPhase, NextPhase
    <2>5. CASE StampsPhase(a)
      <3>1. req[a].target \in Phases
        BY <1>0 DEF TypeOK, Requests
      <3> QED BY <1>0, <2>5, <3>1, Continues, Ends DEF StampsPhase, Phases
    <2>6. CASE SwitchesRegistration(a)
      BY <1>0, <2>6, Ends DEF SwitchesRegistration
    <2>7. CASE MisreadsPhase(a)
      <3>1. PICK place \in {"idle", "readPhase"} : Moves(a, place, Asks("check", "INITIALIZED"))
        BY <2>7 DEF MisreadsPhase
      <3> QED BY <1>0, <2>7, <3>1, AsksFor DEF MisreadsPhase, NothingMissing
    <2> QED BY <1>1, <2>1, <2>2, <2>3, <2>4, <2>5, <2>6, <2>7 DEF ChangesPhase
  <1>2. CASE Initializes(a)
    <2>1. CASE StartsInit(a)
      BY <1>0, <2>1, Continues DEF StartsInit
    <2>2. CASE ReadsConfig(a)
      BY <1>0, <2>2, DraftsIt, Ends DEF ReadsConfig
    <2>3. CASE CommitsUsers(a)
      BY <1>0, <2>3, HoldsKey DEF CommitsUsers
    <2>4. CASE RollsBack(a)
      BY <1>0, <2>4, Ends DEF RollsBack
    <2>5. CASE StoresKey(a)
      BY <1>0, <2>5, Continues DEF StoresKey
    <2>6. CASE StoresFirstPaper(a)
      BY <1>0, <2>6, Continues DEF StoresFirstPaper, StoresPaper, Meta, Cipher
    <2> QED BY <1>2, <2>1, <2>2, <2>3, <2>4, <2>5, <2>6 DEF Initializes, EndsTransaction
  <1>3. CASE Saves(a)
    <2>1. ASSUME NEW c \in Configs, StartsSave(a, c) PROVE RegistrationInv(req[a])'
      BY <1>0, <2>1, DraftsIt DEF StartsSave, KeepsStructure
    <2>2. CASE SavesConfig(a)
      BY <1>0, <2>2, Continues DEF SavesConfig
    <2>3. CASE ReadsKey(a)
      BY <1>0, <2>3, HoldsKey, Ends DEF ReadsKey
    <2>4. CASE ReadsMeta(a)
      BY <1>0, <2>4, WrapsKey, Ends DEF ReadsMeta
    <2>5. CASE ReissuesPaper(a)
      BY <1>0, <2>5, Ends DEF ReissuesPaper, StoresPaper, Meta, Cipher
    <2>6. CASE StartsTuning(a)
      <3>1. PICK c \in Configs : Content[c] = Content[config] /\ Moves(a, "idle", Drafts("saveTuned", c))
        BY <2>6 DEF StartsTuning
      <3> QED BY <1>0, <2>6, <3>1, DraftsIt DEF StartsTuning
    <2>7. CASE SavesTuned(a)
      BY <1>0, <2>7, Ends DEF SavesTuned
    <2> QED BY <1>3, <2>1, <2>2, <2>3, <2>4, <2>5, <2>6, <2>7 DEF Saves
  <1>4. CASE Resets(a)
    <2>1. CASE Wipes(a)
      BY <1>0, <2>1, RecallsKey DEF Wipes
    <2>2. CASE PurgesKey(a)
      BY <1>0, <2>2, Continues DEF PurgesKey
    <2>3. CASE PurgesMeta(a)
      BY <1>0, <2>3, Continues DEF PurgesMeta
    <2>4. CASE PurgesCipher(a)
      BY <1>0, <2>4, Continues DEF PurgesCipher
    <2> QED BY <1>4, <2>1, <2>2, <2>3, <2>4 DEF Resets
  <1>5. CASE Fails(a)
    BY <1>0, <1>5 DEF Fails, Idle, TypeOK
  <1>6. ASSUME NEW open \in BOOLEAN, SetsRegistration(a, open) PROVE RegistrationInv(req[a])'
    BY <1>6 DEF SetsRegistration
  <1>7. CASE Crash
    BY <1>0, <1>7 DEF Crash, Idle, SingleAdmin
  <1>8. CASE UNCHANGED vars
    BY <1>8 DEF vars
  <1> QED BY <1>1, <1>2, <1>3, <1>4, <1>5, <1>6, <1>7, <1>8 DEF Next, SingleAdmin

LEMMA StampStep ==
  ASSUME SingleAdmin, Typed, NEW a \in Admins, PhaseInv(req[a]), StampInv(req[a]), [Next]_vars
  PROVE  StampInv(req[a])'
  <1> USE DEF StampInv, PhaseInv, ResetPcs, settings, faults
  <1>0. TypeOK /\ failures \in Nat /\ MaxFailures \in Nat
    BY BoundsAssumption DEF Typed, TypeOK
  <1>1. CASE ChangesPhase(a)
    <2>1. CASE Advance(a)
      BY <1>0, <2>1, AsksFor, NextIsPhase DEF Advance, NextPhase
    <2>2. CASE ReadsPhase(a)
      BY <1>0, <2>2, AsksFor, Ends DEF ReadsPhase
    <2>3. CASE ChecksPreconditions(a)
      BY <1>0, <2>3, Continues, Ends DEF ChecksPreconditions, NothingMissing, NextPhase
    <2>4. CASE PersistsPhase(a)
      BY <1>0, <2>4, Continues DEF PersistsPhase, NextPhase
    <2>5. CASE StampsPhase(a)
      BY <1>0, <2>5, Continues, Ends DEF StampsPhase
    <2>6. CASE SwitchesRegistration(a)
      BY <1>0, <2>6, Ends DEF SwitchesRegistration
    <2>7. CASE MisreadsPhase(a)
      <3>1. PICK place \in {"idle", "readPhase"} : Moves(a, place, Asks("check", "INITIALIZED"))
        BY <2>7 DEF MisreadsPhase
      <3> QED BY <1>0, <2>7, <3>1, AsksFor DEF MisreadsPhase, NothingMissing
    <2> QED BY <1>1, <2>1, <2>2, <2>3, <2>4, <2>5, <2>6, <2>7 DEF ChangesPhase
  <1>2. CASE Initializes(a)
    <2>1. CASE StartsInit(a)
      BY <1>0, <2>1, Continues DEF StartsInit
    <2>2. CASE ReadsConfig(a)
      BY <1>0, <2>2, DraftsIt, Ends DEF ReadsConfig
    <2>3. CASE CommitsUsers(a)
      BY <1>0, <2>3, HoldsKey DEF CommitsUsers
    <2>4. CASE RollsBack(a)
      BY <1>0, <2>4, Ends DEF RollsBack
    <2>5. CASE StoresKey(a)
      BY <1>0, <2>5, Continues DEF StoresKey
    <2>6. CASE StoresFirstPaper(a)
      BY <1>0, <2>6, Continues DEF StoresFirstPaper, StoresPaper, Meta, Cipher
    <2> QED BY <1>2, <2>1, <2>2, <2>3, <2>4, <2>5, <2>6 DEF Initializes, EndsTransaction
  <1>3. CASE Saves(a)
    <2>1. ASSUME NEW c \in Configs, StartsSave(a, c) PROVE StampInv(req[a])'
      BY <1>0, <2>1, DraftsIt DEF StartsSave, KeepsStructure
    <2>2. CASE SavesConfig(a)
      BY <1>0, <2>2, Continues DEF SavesConfig
    <2>3. CASE ReadsKey(a)
      BY <1>0, <2>3, HoldsKey, Ends DEF ReadsKey
    <2>4. CASE ReadsMeta(a)
      BY <1>0, <2>4, WrapsKey, Ends DEF ReadsMeta
    <2>5. CASE ReissuesPaper(a)
      BY <1>0, <2>5, Ends DEF ReissuesPaper, StoresPaper, Meta, Cipher
    <2>6. CASE StartsTuning(a)
      <3>1. PICK c \in Configs : Content[c] = Content[config] /\ Moves(a, "idle", Drafts("saveTuned", c))
        BY <2>6 DEF StartsTuning
      <3> QED BY <1>0, <2>6, <3>1, DraftsIt DEF StartsTuning
    <2>7. CASE SavesTuned(a)
      BY <1>0, <2>7, Ends DEF SavesTuned
    <2> QED BY <1>3, <2>1, <2>2, <2>3, <2>4, <2>5, <2>6, <2>7 DEF Saves
  <1>4. CASE Resets(a)
    <2>1. CASE Wipes(a)
      BY <1>0, <2>1, RecallsKey DEF Wipes
    <2>2. CASE PurgesKey(a)
      BY <1>0, <2>2, Continues DEF PurgesKey
    <2>3. CASE PurgesMeta(a)
      BY <1>0, <2>3, Continues DEF PurgesMeta
    <2>4. CASE PurgesCipher(a)
      BY <1>0, <2>4, Continues DEF PurgesCipher
    <2> QED BY <1>4, <2>1, <2>2, <2>3, <2>4 DEF Resets
  <1>5. CASE Fails(a)
    BY <1>0, <1>5 DEF Fails, Idle, TypeOK
  <1>6. ASSUME NEW open \in BOOLEAN, SetsRegistration(a, open) PROVE StampInv(req[a])'
    BY <1>6 DEF SetsRegistration
  <1>7. CASE Crash
    BY <1>0, <1>7 DEF Crash, Idle, SingleAdmin
  <1>8. CASE UNCHANGED vars
    BY <1>8 DEF vars
  <1> QED BY <1>1, <1>2, <1>3, <1>4, <1>5, <1>6, <1>7, <1>8 DEF Next, SingleAdmin

LEMMA PaperStep ==
  ASSUME SingleAdmin, Typed, NEW a \in Admins, RosterInv(req[a]), HeldInv(req[a]), PaperInv(req[a]), [Next]_vars
  PROVE  PaperInv(req[a])'
  <1> USE DEF PaperInv, RosterInv, HeldInv, ResetPcs, settings, faults
  <1>0. TypeOK /\ failures \in Nat /\ MaxFailures \in Nat
    BY BoundsAssumption DEF Typed, TypeOK
  <1>1. CASE ChangesPhase(a)
    <2>1. CASE Advance(a)
      BY <1>0, <2>1, AsksFor, NextIsPhase DEF Advance, NextPhase
    <2>2. CASE ReadsPhase(a)
      BY <1>0, <2>2, AsksFor, Ends DEF ReadsPhase
    <2>3. CASE ChecksPreconditions(a)
      BY <1>0, <2>3, Continues, Ends DEF ChecksPreconditions, NothingMissing, NextPhase
    <2>4. CASE PersistsPhase(a)
      BY <1>0, <2>4, Continues DEF PersistsPhase, NextPhase
    <2>5. CASE StampsPhase(a)
      BY <1>0, <2>5, Continues, Ends DEF StampsPhase
    <2>6. CASE SwitchesRegistration(a)
      BY <1>0, <2>6, Ends DEF SwitchesRegistration
    <2>7. CASE MisreadsPhase(a)
      <3>1. PICK place \in {"idle", "readPhase"} : Moves(a, place, Asks("check", "INITIALIZED"))
        BY <2>7 DEF MisreadsPhase
      <3> QED BY <1>0, <2>7, <3>1, AsksFor DEF MisreadsPhase, NothingMissing
    <2> QED BY <1>1, <2>1, <2>2, <2>3, <2>4, <2>5, <2>6, <2>7 DEF ChangesPhase
  <1>2. CASE Initializes(a)
    <2>1. CASE StartsInit(a)
      BY <1>0, <2>1, Continues DEF StartsInit
    <2>2. CASE ReadsConfig(a)
      BY <1>0, <2>2, DraftsIt, Ends DEF ReadsConfig
    <2>3. CASE CommitsUsers(a)
      BY <1>0, <2>3, HoldsKey DEF CommitsUsers
    <2>4. CASE RollsBack(a)
      BY <1>0, <2>4, Ends DEF RollsBack
    <2>5. CASE StoresKey(a)
      BY <1>0, <2>5, Continues DEF StoresKey
    <2>6. CASE StoresFirstPaper(a)
      <3>1. req[a].at = "initPaper"
        BY <1>0, <2>6, Continues DEF StoresFirstPaper
      <3>2. StoresPaper(a, req[a].key) /\ req[a].at \in DraftPcs /\ req[a].key \in Nat
        BY <1>0, <2>6, <3>1 DEF StoresFirstPaper, DraftPcs, TypeOK, Requests
      <3>3. meta' # None /\ meta'.key = req[a].key /\ cipher' # None /\ cipher'.key = req[a].key
        BY <3>2, PaperIsStored
      <3>4. cipher'.config = req[a].draft
        BY <3>2, PaperIsStored
      <3>5. UNCHANGED <<phase, key, config, users, failures>>
        BY <3>2 DEF StoresPaper, Meta, Cipher
      <3> QED BY <1>0, <2>6, <3>1, <3>3, <3>4, <3>5, Continues DEF StoresFirstPaper
    <2> QED BY <1>2, <2>1, <2>2, <2>3, <2>4, <2>5, <2>6 DEF Initializes, EndsTransaction
  <1>3. CASE Saves(a)
    <2>1. ASSUME NEW c \in Configs, StartsSave(a, c) PROVE PaperInv(req[a])'
      BY <1>0, <2>1, DraftsIt DEF StartsSave, KeepsStructure
    <2>2. CASE SavesConfig(a)
      BY <1>0, <2>2, Continues DEF SavesConfig
    <2>3. CASE ReadsKey(a)
      BY <1>0, <2>3, HoldsKey, Ends DEF ReadsKey
    <2>4. CASE ReadsMeta(a)
      BY <1>0, <2>4, WrapsKey, Ends DEF ReadsMeta
    <2>5. CASE ReissuesPaper(a)
      <3>1. req[a].at = "savePaper" /\ req'[a].at = "idle"
        BY <1>0, <2>5, Ends DEF ReissuesPaper
      <3>2. StoresPaper(a, req[a].wraps) /\ req[a].at \in DraftPcs /\ req[a].wraps \in Nat
        BY <1>0, <2>5, <3>1 DEF ReissuesPaper, DraftPcs, SavePcs, TypeOK, Requests
      <3>3. meta' # None /\ meta'.key = req[a].wraps /\ cipher' # None /\ cipher'.key = req[a].key
        BY <3>2, PaperIsStored
      <3>4. cipher'.config = req[a].draft
        BY <3>2, PaperIsStored
      <3>5. UNCHANGED <<phase, key, config, users, failures>>
        BY <3>2 DEF StoresPaper, Meta, Cipher
      <3> QED BY <1>0, <3>1, <3>3, <3>4, <3>5
    <2>6. CASE StartsTuning(a)
      <3>1. PICK c \in Configs : Content[c] = Content[config] /\ Moves(a, "idle", Drafts("saveTuned", c))
        BY <2>6 DEF StartsTuning
      <3> QED BY <1>0, <2>6, <3>1, DraftsIt DEF StartsTuning
    <2>7. CASE SavesTuned(a)
      BY <1>0, <2>7, Ends DEF SavesTuned
    <2> QED BY <1>3, <2>1, <2>2, <2>3, <2>4, <2>5, <2>6, <2>7 DEF Saves
  <1>4. CASE Resets(a)
    <2>1. CASE Wipes(a)
      BY <1>0, <2>1, RecallsKey DEF Wipes
    <2>2. CASE PurgesKey(a)
      BY <1>0, <2>2, Continues DEF PurgesKey
    <2>3. CASE PurgesMeta(a)
      BY <1>0, <2>3, Continues DEF PurgesMeta
    <2>4. CASE PurgesCipher(a)
      BY <1>0, <2>4, Continues DEF PurgesCipher
    <2> QED BY <1>4, <2>1, <2>2, <2>3, <2>4 DEF Resets
  <1>5. CASE Fails(a)
    BY <1>0, <1>5 DEF Fails, Idle, TypeOK
  <1>6. ASSUME NEW open \in BOOLEAN, SetsRegistration(a, open) PROVE PaperInv(req[a])'
    BY <1>6 DEF SetsRegistration
  <1>7. CASE Crash
    BY <1>0, <1>7 DEF Crash, Idle, SingleAdmin
  <1>8. CASE UNCHANGED vars
    BY <1>8 DEF vars
  <1> QED BY <1>1, <1>2, <1>3, <1>4, <1>5, <1>6, <1>7, <1>8 DEF Next, SingleAdmin

LEMMA ReadyStep ==
  ASSUME SingleAdmin, Typed, NEW a \in Admins, ResetInv(req[a]), PhaseInv(req[a]), RosterInv(req[a]), HeldInv(req[a]), ReadyInv(req[a]), [Next]_vars
  PROVE  ReadyInv(req[a])'
  <1> USE DEF ReadyInv, ResetInv, PhaseInv, RosterInv, HeldInv, Closing, Opens, Ready, ResetPcs, settings, faults
  <1>0. TypeOK /\ failures \in Nat /\ MaxFailures \in Nat
    BY BoundsAssumption DEF Typed, TypeOK
  <1>1. CASE ChangesPhase(a)
    <2>1. CASE Advance(a)
      BY <1>0, <2>1, AsksFor, NextIsPhase DEF Advance, NextPhase
    <2>2. CASE ReadsPhase(a)
      BY <1>0, <2>2, AsksFor, Ends DEF ReadsPhase
    <2>3. CASE ChecksPreconditions(a)
      BY <1>0, <2>3, Continues, Ends DEF ChecksPreconditions, NothingMissing, NextPhase
    <2>4. CASE PersistsPhase(a)
      BY <1>0, <2>4, Continues DEF PersistsPhase, NextPhase
    <2>5. CASE StampsPhase(a)
      BY <1>0, <2>5, Continues, Ends DEF StampsPhase
    <2>6. CASE SwitchesRegistration(a)
      BY <1>0, <2>6, Ends DEF SwitchesRegistration
    <2>7. CASE MisreadsPhase(a)
      <3>1. PICK place \in {"idle", "readPhase"} : Moves(a, place, Asks("check", "INITIALIZED"))
        BY <2>7 DEF MisreadsPhase
      <3> QED BY <1>0, <2>7, <3>1, AsksFor DEF MisreadsPhase, NothingMissing
    <2> QED BY <1>1, <2>1, <2>2, <2>3, <2>4, <2>5, <2>6, <2>7 DEF ChangesPhase
  <1>2. CASE Initializes(a)
    <2>1. CASE StartsInit(a)
      BY <1>0, <2>1, Continues DEF StartsInit
    <2>2. CASE ReadsConfig(a)
      BY <1>0, <2>2, DraftsIt, Ends DEF ReadsConfig
    <2>3. CASE CommitsUsers(a)
      BY <1>0, <2>3, HoldsKey DEF CommitsUsers
    <2>4. CASE RollsBack(a)
      BY <1>0, <2>4, Ends DEF RollsBack
    <2>5. CASE StoresKey(a)
      BY <1>0, <2>5, Continues DEF StoresKey
    <2>6. CASE StoresFirstPaper(a)
      <3>1. req[a].at = "initPaper"
        BY <1>0, <2>6, Continues DEF StoresFirstPaper
      <3>2. StoresPaper(a, req[a].key) /\ req[a].at \in DraftPcs /\ req[a].key \in Nat
        BY <1>0, <2>6, <3>1 DEF StoresFirstPaper, DraftPcs, TypeOK, Requests
      <3>3. meta' # None /\ meta'.key = req[a].key /\ cipher' # None /\ cipher'.key = req[a].key
        BY <3>2, PaperIsStored
      <3>4. cipher'.config = req[a].draft
        BY <3>2, PaperIsStored
      <3>5. UNCHANGED <<phase, key, config, users, failures>>
        BY <3>2 DEF StoresPaper, Meta, Cipher
      <3> QED BY <1>0, <2>6, <3>1, <3>3, <3>4, <3>5, Continues DEF StoresFirstPaper
    <2> QED BY <1>2, <2>1, <2>2, <2>3, <2>4, <2>5, <2>6 DEF Initializes, EndsTransaction
  <1>3. CASE Saves(a)
    <2>1. ASSUME NEW c \in Configs, StartsSave(a, c) PROVE ReadyInv(req[a])'
      BY <1>0, <2>1, DraftsIt DEF StartsSave, KeepsStructure
    <2>2. CASE SavesConfig(a)
      BY <1>0, <2>2, Continues DEF SavesConfig
    <2>3. CASE ReadsKey(a)
      BY <1>0, <2>3, HoldsKey, Ends DEF ReadsKey
    <2>4. CASE ReadsMeta(a)
      BY <1>0, <2>4, WrapsKey, Ends DEF ReadsMeta
    <2>5. CASE ReissuesPaper(a)
      <3>1. req[a].at = "savePaper" /\ req'[a].at = "idle"
        BY <1>0, <2>5, Ends DEF ReissuesPaper
      <3>2. StoresPaper(a, req[a].wraps) /\ req[a].at \in DraftPcs /\ req[a].wraps \in Nat
        BY <1>0, <2>5, <3>1 DEF ReissuesPaper, DraftPcs, SavePcs, TypeOK, Requests
      <3>3. meta' # None /\ meta'.key = req[a].wraps /\ cipher' # None /\ cipher'.key = req[a].key
        BY <3>2, PaperIsStored
      <3>4. cipher'.config = req[a].draft
        BY <3>2, PaperIsStored
      <3>5. UNCHANGED <<phase, key, config, users, failures>>
        BY <3>2 DEF StoresPaper, Meta, Cipher
      <3> QED BY <1>0, <3>1, <3>3, <3>4, <3>5
    <2>6. CASE StartsTuning(a)
      <3>1. PICK c \in Configs : Content[c] = Content[config] /\ Moves(a, "idle", Drafts("saveTuned", c))
        BY <2>6 DEF StartsTuning
      <3> QED BY <1>0, <2>6, <3>1, DraftsIt DEF StartsTuning
    <2>7. CASE SavesTuned(a)
      BY <1>0, <2>7, Ends DEF SavesTuned
    <2> QED BY <1>3, <2>1, <2>2, <2>3, <2>4, <2>5, <2>6, <2>7 DEF Saves
  <1>4. CASE Resets(a)
    <2>1. CASE Wipes(a)
      BY <1>0, <2>1, RecallsKey DEF Wipes
    <2>2. CASE PurgesKey(a)
      BY <1>0, <2>2, Continues DEF PurgesKey
    <2>3. CASE PurgesMeta(a)
      BY <1>0, <2>3, Continues DEF PurgesMeta
    <2>4. CASE PurgesCipher(a)
      BY <1>0, <2>4, Continues DEF PurgesCipher
    <2> QED BY <1>4, <2>1, <2>2, <2>3, <2>4 DEF Resets
  <1>5. CASE Fails(a)
    BY <1>0, <1>5 DEF Fails, Idle, TypeOK
  <1>6. ASSUME NEW open \in BOOLEAN, SetsRegistration(a, open) PROVE ReadyInv(req[a])'
    BY <1>6 DEF SetsRegistration
  <1>7. CASE Crash
    BY <1>0, <1>7 DEF Crash, Idle, SingleAdmin
  <1>8. CASE UNCHANGED vars
    BY <1>8 DEF vars
  <1> QED BY <1>1, <1>2, <1>3, <1>4, <1>5, <1>6, <1>7, <1>8 DEF Next, SingleAdmin

--------------------------------------------------------------------------------
\* All of it together, for the one admin.
OneInv ==
  /\ Typed
  /\ \A a \in Admins : /\ ResetInv(req[a]) /\ PhaseInv(req[a]) /\ RosterInv(req[a]) /\ HeldInv(req[a])
                       /\ RegistrationInv(req[a]) /\ StampInv(req[a]) /\ PaperInv(req[a]) /\ ReadyInv(req[a])

LEMMA InitOne == Init => OneInv
  <1> SUFFICES ASSUME Init, NEW a \in Admins
               PROVE  /\ ResetInv(req[a]) /\ PhaseInv(req[a]) /\ RosterInv(req[a]) /\ HeldInv(req[a])
                      /\ RegistrationInv(req[a]) /\ StampInv(req[a]) /\ PaperInv(req[a]) /\ ReadyInv(req[a])
    BY InitTyped DEF OneInv
  <1>1. req[a].at = "idle"
    BY DEF Init, Idle
  <1> QED
    BY <1>1 DEF Init, ResetInv, PhaseInv, RosterInv, HeldInv, RegistrationInv, StampInv, PaperInv, ReadyInv, Closing,
         ResetPcs, Opens, Ready, RosterIsConfigured

LEMMA OneStep ==
  ASSUME SingleAdmin, OneInv, [Next]_vars
  PROVE  OneInv'
  <1>1. Typed'
    BY TypeStep DEF OneInv
  <1>2. ASSUME NEW a \in Admins
        PROVE  /\ ResetInv(req[a])' /\ PhaseInv(req[a])' /\ RosterInv(req[a])' /\ HeldInv(req[a])'
               /\ RegistrationInv(req[a])' /\ StampInv(req[a])' /\ PaperInv(req[a])' /\ ReadyInv(req[a])'
    BY ResetStep, PhaseStep, RosterStep, HeldStep, RegistrationStep, StampStep, PaperStep, ReadyStep DEF OneInv
  <1> QED BY <1>1, <1>2 DEF OneInv

LEMMA OneAlways == ASSUME SingleAdmin PROVE Spec => []OneInv
  <1>1. OneInv /\ [Next]_vars => OneInv'
    BY OneStep
  <1> QED BY <1>1, InitOne, PTL DEF Spec

\* When resetToUninitialized is about to close registration, the wipe before it has left no student,
\* key, wrapped key or paper, however many requests failed half-way before or during earlier resets.
THEOREM ResetIsThorough == ASSUME SingleAdmin PROVE Spec => []ResetLeavesNothing
  <1>1. OneInv => ResetLeavesNothing
    BY DEF OneInv, ResetInv, PhaseInv, Closing, Resetting, ResetLeavesNothing
  <1> QED BY <1>1, OneAlways, PTL

\* restrictedUpdate keeps the roster of an enrolled exam, and an initialisation that enrolled somebody
\* cannot be followed by the upload of another roster, whatever failed in between.
THEOREM RosterStaysConfigured == ASSUME SingleAdmin PROVE Spec => []RosterIsConfigured
  <1>1. OneInv => RosterIsConfigured
    BY AdminsAssumption DEF OneInv, RosterInv
  <1> QED BY <1>1, OneAlways, PTL

\* getMissingPreconditions and the order of the writes keep an enrolled exam complete: the paper, its
\* key and the wrapped copy are there after at most one failure, and belong together if there was none.
THEOREM EnrolledExamStaysReady == ASSUME SingleAdmin PROVE Spec => []EnrolledExamIsReady
  <1>1. OneInv => EnrolledExamIsReady
    BY AdminsAssumption DEF OneInv, ReadyInv, Opens, Ready, ResetPcs, EnrolledExamIsReady, Quiet
  <1> QED BY <1>1, OneAlways, PTL

\* reissuePreparedPaper after every upload: without failures the stored paper is that of the stored
\* configuration as soon as the request is answered, judger settings that updateSettings saved later apart.
THEOREM PaperStaysCurrent == ASSUME SingleAdmin PROVE Spec => []PaperIsCurrent
  <1>1. OneInv => PaperIsCurrent
    BY AdminsAssumption DEF OneInv, PaperInv, PaperIsCurrent, Quiet
  <1> QED BY <1>1, OneAlways, PTL

\* changeState's last writes: without failures registration is open in INITIALIZED and only there, unless the
\* operator switched it by hand.
THEOREM RegistrationStaysInStep == ASSUME SingleAdmin PROVE Spec => []RegistrationFollowsPhase
  <1>1. OneInv => RegistrationFollowsPhase
    BY AdminsAssumption DEF OneInv, RegistrationInv, RegistrationFollowsPhase, Quiet
  <1> QED BY <1>1, OneAlways, PTL

\* persistState writes the time with the phase: without failures the submission grace period counts from
\* the change to FINISHED.
THEOREM StampStaysOfPhase == ASSUME SingleAdmin PROVE Spec => []StampIsOfPhase
  <1>1. OneInv => StampIsOfPhase
    BY AdminsAssumption DEF OneInv, StampInv, StampIsOfPhase, Quiet
  <1> QED BY <1>1, OneAlways, PTL

\* The phase is written by persistState alone, and OneInv says where what it writes comes from.
LEMMA PhaseIsPersisted ==
  ASSUME OneInv, [Next]_vars, phase' # phase
  PROVE  \E a \in Admins :
           /\ req[a].at = "persist" /\ phase' = req[a].target
           /\ \/ Lifecycle!Advance \/ Lifecycle!Reset
              \/ misread # {} /\ NothingMissing /\ phase' = "INITIALIZED"
  <1>1. PICK a \in Admins : PersistsPhase(a)
    BY DEF Next, ChangesPhase, Initializes, EndsTransaction, Saves, Resets, Advance, ReadsPhase, MisreadsPhase,
         ChecksPreconditions, StampsPhase, SwitchesRegistration, StartsInit, ReadsConfig, CommitsUsers, RollsBack,
         StoresKey, StoresFirstPaper, StoresPaper, Meta, Cipher, StartsSave, SavesConfig, ReadsKey, ReadsMeta,
         ReissuesPaper, StartsTuning, SavesTuned, Wipes, PurgesKey, PurgesMeta, PurgesCipher, Fails,
         SetsRegistration, Crash, vars, settings, faults
  <1>2. req[a].at = "persist" /\ phase' = req[a].target
    BY <1>1 DEF PersistsPhase, Moves
  <1>3. PhaseInv(req[a])
    BY DEF OneInv
  <1>4. NextPhase = Lifecycle!NextPhase
    BY DEF NextPhase, Lifecycle!NextPhase
  <1> QED BY <1>2, <1>3, <1>4 DEF PhaseInv, Lifecycle!Advance, Lifecycle!Reset

\* As long as changeState's read and its write are not separated by another request, the phase takes one
\* step forward or is reset, unless that read was rejected: then an enrolled exam with its key and paper
\* may go back to INITIALIZED.
THEOREM OnlyMisreadsTurnPhaseBack == ASSUME SingleAdmin PROVE Spec => OnlyMisreadsTurnBack
  <1>1. OneInv /\ [Next]_vars =>
          [\/ Lifecycle!Advance \/ Lifecycle!Reset
           \/ \E a \in misread : req[a].at = "persist" /\ NothingMissing /\ phase' = "INITIALIZED"]_phase
    <2> SUFFICES ASSUME OneInv, [Next]_vars, phase' # phase
                 PROVE  \/ Lifecycle!Advance \/ Lifecycle!Reset
                        \/ \E a \in misread : req[a].at = "persist" /\ NothingMissing /\ phase' = "INITIALIZED"
      OBVIOUS
    <2>1. misread # {} => misread = Admins
      BY DEF OneInv, Typed, TypeOK, SingleAdmin
    <2> QED BY <2>1, PhaseIsPersisted
  <1> QED BY <1>1, OneAlways, PTL DEF Spec, OnlyMisreadsTurnBack

\* Where nothing fails, changeState implements the chain of phases of EXAM-LIFECYCLE.md.
THEOREM PhaseImplementsTheChain == ASSUME SingleAdmin, MaxFailures = 0 PROVE Spec => PhaseMovesForward
  <1>1. Init => Lifecycle!Init
    BY DEF Init, Lifecycle!Init
  <1>2. OneInv /\ [Next]_vars => [Lifecycle!Advance \/ Lifecycle!Reset]_phase
    <2> SUFFICES ASSUME OneInv, [Next]_vars, phase' # phase PROVE Lifecycle!Advance \/ Lifecycle!Reset
      OBVIOUS
    <2>1. misread = {}
      BY AdminsAssumption DEF OneInv, PhaseInv, Typed, TypeOK
    <2> QED BY <2>1, PhaseIsPersisted
  <1> QED BY <1>1, <1>2, OneAlways, PTL DEF Spec, PhaseMovesForward, Lifecycle!Spec

\* Whoever performInitialization enrolled is of the stored configuration and finds a paper and its key,
\* even after a request that stopped half-way.
THEOREM EnrolmentStaysSound == ASSUME SingleAdmin PROVE Spec => []EnrolmentIsSound
  <1>1. RosterIsConfigured /\ EnrolledExamIsReady => EnrolmentIsSound
    BY DEF EnrolmentIsSound
  <1> QED BY <1>1, RosterStaysConfigured, EnrolledExamStaysReady, PTL

\* savePreparedPaper and reissuePreparedPaper: the stored paper is of one configuration, and without
\* failures of the stored one.
THEOREM PaperStaysSound == ASSUME SingleAdmin PROVE Spec => []PaperIsSound
  <1>1. PaperIsWhole /\ PaperIsCurrent => PaperIsSound
    BY DEF PaperIsSound
  <1> QED BY <1>1, PaperStaysWhole, PaperStaysCurrent, PTL

\* changeState's writes: without failures registration and the time of the change are those of the
\* phase.
THEOREM PhaseStaysInStep == ASSUME SingleAdmin PROVE Spec => []PhaseIsInStep
  <1>1. RegistrationFollowsPhase /\ StampIsOfPhase => PhaseIsInStep
    BY DEF PhaseIsInStep
  <1> QED BY <1>1, RegistrationStaysInStep, StampStaysOfPhase, PTL

================================================================================
