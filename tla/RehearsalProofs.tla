---------------------------- MODULE RehearsalProofs ----------------------------
(***************************************************************************)
(* The safety properties of Rehearsal, for any settings and any number of  *)
(* rehearsals, changes and faults, in four layers:                         *)
(*   ReportInv    where the process stands says who holds the lease and    *)
(*                what the record claims: it owns the machine from the     *)
(*                first change until somebody has settled it;              *)
(*   LateInv, ClaimInv, RealInv                                            *)
(*                a script that can still store the paper, or put it back, *)
(*                outlives its stage only where nobody can start, so that  *)
(*                whoever claims the machine claims it clean;              *)
(*   SatInv       no stage is skipped: the traces a report of a stage      *)
(*                speaks of were stored before the stage ended;            *)
(*   RestoreInv   at every step of the way the operator's configuration is *)
(*                on the machine or in the row it is put back from.        *)
(***************************************************************************)
EXTENDS Rehearsal, TLAPS

--------------------------------------------------------------------------------
(* Scripts *)

\* What a script asks next.
Asked(s) == Script[s.stage][s.next]

\* The requests by the stage that sends them.
LEMMA Lengths ==
  /\ Len(Script["paper"]) = 3 /\ Len(Script["enrol"]) = 4 /\ Len(Script["admit"]) = 2
  /\ Len(Script["submit"]) = 4 /\ Len(Script["grade"]) = 3 /\ Len(Script["cleanup"]) = 7
  <1>1. /\ Script["paper"] = PaperScript /\ Script["enrol"] = EnrolScript
        /\ Script["admit"] = AdmitScript /\ Script["submit"] = SubmitScript
        /\ Script["grade"] = GradeScript /\ Script["cleanup"] = CleanupScript
    BY DEF Script
  <1> QED BY <1>1 DEF PaperScript, EnrolScript, AdmitScript, SubmitScript, GradeScript, CleanupScript

LEMMA SomeLength == \A g \in StageIds : Len(Script[g]) \in 2..7
  BY Lengths DEF StageIds

\* What the scripts that only read, or that only the exam's own tables hear, ask for.
Small == {"register", "collect", "report", "isRefusedKey", "finishSetup", "login", "begin", "getKey",
          "submitRight", "submitWrong", "judge", "poll", "verdicts"}

LEMMA AskedByPaper ==
  ASSUME NEW s \in Scripts, ~ Answered(s), s.stage = "paper"
  PROVE  /\ s.next \in 1..3
         /\ s.next = 1 => Asked(s) = "upload"
         /\ s.next = 2 => Asked(s) = "init"
         /\ s.next = 3 => Asked(s) = "isInitialized"
  <1>1. Script[s.stage] = PaperScript /\ Len(Script[s.stage]) = 3 /\ s.next \in 1..8
    BY Lengths DEF Script, Scripts
  <1> QED BY <1>1 DEF Answered, Asked, PaperScript

LEMMA AskedByCleanup ==
  ASSUME NEW s \in Scripts, ~ Answered(s), s.stage = "cleanup"
  PROVE  /\ s.next \in 1..7
         /\ s.next = 1 => Asked(s) = "reset"
         /\ s.next = 2 => Asked(s) = "isUninitialized"
         /\ s.next = 3 => Asked(s) = "isEmpty"
         /\ s.next = 4 => Asked(s) = "restore"
         /\ s.next = 5 => Asked(s) = "isForgotten"
         /\ s.next = 6 => Asked(s) = "noDevices"
         /\ s.next = 7 => Asked(s) = "noSubmissions"
  <1>1. Script[s.stage] = CleanupScript /\ Len(Script[s.stage]) = 7 /\ s.next \in 1..8
    BY Lengths DEF Script, Scripts
  <1> QED BY <1>1 DEF Answered, Asked, CleanupScript

LEMMA AskedByOthers ==
  ASSUME NEW s \in Scripts, ~ Answered(s), s.stage \notin {"paper", "cleanup"}
  PROVE  s.next \in 1..4 /\ Asked(s) \in Small
  <1>1. s.next \in 1..8 /\ s.stage \in {"enrol", "admit", "submit", "grade"}
    BY DEF Scripts, StageIds
  <1>2. CASE s.stage = "enrol"
    <2>1. Script[s.stage] = EnrolScript /\ Len(Script[s.stage]) = 4
      BY <1>2, Lengths DEF Script
    <2> QED BY <1>1, <2>1 DEF Answered, Asked, EnrolScript, Small
  <1>3. CASE s.stage = "admit"
    <2>1. Script[s.stage] = AdmitScript /\ Len(Script[s.stage]) = 2
      BY <1>3, Lengths DEF Script
    <2> QED BY <1>1, <2>1 DEF Answered, Asked, AdmitScript, Small
  <1>4. CASE s.stage = "submit"
    <2>1. Script[s.stage] = SubmitScript /\ Len(Script[s.stage]) = 4
      BY <1>4, Lengths DEF Script
    <2> QED BY <1>1, <2>1 DEF Answered, Asked, SubmitScript, Small
  <1>5. CASE s.stage = "grade"
    <2>1. Script[s.stage] = GradeScript /\ Len(Script[s.stage]) = 3
      BY <1>5, Lengths DEF Script
    <2> QED BY <1>1, <2>1 DEF Answered, Asked, GradeScript, Small
  <1> QED BY <1>1, <1>2, <1>3, <1>4, <1>5

\* A script goes on to its next request, or past its last.
LEMMA GoesOn ==
  ASSUME NEW s \in Scripts, ~ Answered(s), NEW good \in BOOLEAN
  PROVE  /\ After(s, good) \in Scripts /\ After(s, good).stage = s.stage
         /\ After(s, good).next = IF ~ good /\ Asked(s) \in Decisive THEN Len(Script[s.stage]) + 1 ELSE s.next + 1
         /\ good /\ s.ok <=> After(s, good).ok
         /\ After(s, good).ok => After(s, good).next = s.next + 1
  <1>a. s.next \in 1..8 /\ s.stage \in StageIds
    BY DEF Scripts
  <1>b. Len(Script[s.stage]) \in 2..7
    BY <1>a, SomeLength
  <1>1. s.next \in 1..7 /\ s.next <= Len(Script[s.stage]) /\ Len(Script[s.stage]) \in 2..7
    <2>1. ~ (s.next > Len(Script[s.stage]))
      BY DEF Answered
    <2>2. \A n \in 1..8, l \in 2..7 : ~ (n > l) => n \in 1..7 /\ n <= l
      OBVIOUS
    <2> QED BY <1>a, <1>b, <2>1, <2>2
  <1>2. /\ s = [stage |-> s.stage, next |-> s.next, ok |-> s.ok, uploaded |-> s.uploaded]
        /\ s.ok \in BOOLEAN /\ s.uploaded \in BOOLEAN /\ s.stage \in StageIds
    BY DEF Scripts
  <1>3. CASE good
    <2> DEFINE u == s.uploaded \/ Asked(s) = "upload"
    <2>1. After(s, good) = [stage |-> s.stage, next |-> s.next + 1, ok |-> s.ok, uploaded |-> u]
      BY <1>2, <1>3 DEF After, Asked
    <2>2. u \in BOOLEAN
      OBVIOUS
    <2> HIDE DEF u
    <2>3. s.next + 1 \in 1..8
      BY <1>1
    <2>4. After(s, good) \in Scripts
      BY <1>2, <2>1, <2>2, <2>3 DEF Scripts
    <2>5. After(s, good).stage = s.stage /\ After(s, good).next = s.next + 1 /\ After(s, good).ok = s.ok
      BY <2>1
    <2> QED BY <1>2, <1>3, <2>4, <2>5
  <1>4. CASE ~ good
    <2> DEFINE n == IF Asked(s) \in Decisive THEN Len(Script[s.stage]) + 1 ELSE s.next + 1
    <2>1. After(s, good) = [stage |-> s.stage, next |-> n, ok |-> FALSE, uploaded |-> s.uploaded]
      BY <1>2, <1>4 DEF After, Asked
    <2>2. n \in 1..8 /\ n = IF Asked(s) \in Decisive THEN Len(Script[s.stage]) + 1 ELSE s.next + 1
      <3>1. \A l \in 2..7 : l + 1 \in 1..8
        OBVIOUS
      <3>2. CASE Asked(s) \in Decisive
        BY <1>1, <3>1, <3>2
      <3>3. CASE Asked(s) \notin Decisive
        BY <1>1, <3>3
      <3> QED BY <3>2, <3>3
    <2> HIDE DEF n
    <2>3. After(s, good) \in Scripts
      BY <1>2, <2>1, <2>2 DEF Scripts
    <2>4. After(s, good).stage = s.stage /\ After(s, good).next = n /\ After(s, good).ok = FALSE
      BY <2>1
    <2> QED BY <1>2, <1>4, <2>2, <2>3, <2>4
  <1> QED BY <1>3, <1>4

\* What goes on unheard is the same script, with requests left.
LEMMA UnheardGoesOn ==
  ASSUME NEW s \in Scripts, NEW u \in Unheard(s)
  PROVE  u \in Scripts /\ u.stage = s.stage /\ u.next = s.next /\ ~ Answered(u)
  <1>1. /\ s = [stage |-> s.stage, next |-> s.next, ok |-> s.ok, uploaded |-> s.uploaded]
        /\ s.next \in 1..8 /\ s.stage \in StageIds
    BY DEF Scripts
  <1>l. Len(Script[s.stage]) \in 2..7
    BY <1>1, SomeLength
  <1>2. u = [s EXCEPT !.ok = TRUE, !.uploaded = FALSE] /\ s.next <= Len(Script[s.stage])
    BY <1>1, <1>l DEF Unheard
  <1>3. u = [stage |-> s.stage, next |-> s.next, ok |-> TRUE, uploaded |-> FALSE]
    BY <1>1, <1>2
  <1>4. u \in Scripts
    BY <1>1, <1>3 DEF Scripts
  <1>5. u.stage = s.stage /\ u.next = s.next
    BY <1>3
  <1> QED BY <1>1, <1>l, <1>2, <1>4, <1>5 DEF Answered

--------------------------------------------------------------------------------
(* What a request does to the exam *)

\* A request is served, refused, or fails after it stored the paper.
LEMMA SendsHow ==
  ASSUME TypeOK, NEW s \in Scripts, NEW good \in BOOLEAN, Sends(s, good)
  PROVE  /\ ~ Answered(s) /\ faults' \in 0..MaxFaults
         /\ \/ good /\ Serves(Asked(s)) /\ (Ready(Asked(s)) \/ Asked(s) = "isForgotten")
            \/ ~ good /\ UNCHANGED <<exam, prior, sat>>
            \/ ~ good /\ StoresAndFails(Asked(s))
  <1>1. faults \in 0..MaxFaults /\ MaxFaults \in Nat
    BY BoundsAssumption DEF TypeOK
  <1>2. Fault => faults' \in 0..MaxFaults
    BY <1>1 DEF Fault
  <1> QED BY <1>1, <1>2 DEF Sends, Asked

\* Each request changes what it is about and nothing else.
LEMMA Served ==
  ASSUME NEW r, Serves(r)
  PROVE  /\ r = "upload" => config' = RehearsalPaper /\ UNCHANGED <<users, prior>>
         /\ r = "init" => users' = config.paper /\ UNCHANGED <<config, prior>>
         /\ r = "reset" => users' = "none" /\ UNCHANGED <<config, prior>>
         /\ r = "restore" => config' = PutsBack /\ UNCHANGED <<users, prior>>
         /\ r = "isForgotten" => prior' = None /\ UNCHANGED <<config, users>>
         /\ r \notin {"upload", "init", "reset", "restore", "isForgotten"} => UNCHANGED <<config, users, prior>>
         /\ phase' = IF r \in DOMAIN Enters THEN Enters[r] ELSE phase
         /\ work' = CASE r = "reset" -> {} [] r \in DOMAIN Leaves -> work \union Leaves[r] [] OTHER -> work
         /\ sat' = sat \union work'
  BY DEF Serves

LEMMA EntersPhases == \A r \in DOMAIN Enters : Enters[r] \in Phases
  <1>1. DOMAIN Enters = {"init", "finishSetup", "begin", "reset"}
    BY DEF Enters
  <1> QED BY <1>1 DEF Enters, Phases

LEMMA LeavesTraces ==
  /\ DOMAIN Leaves = {"register", "report", "login", "submitRight", "submitWrong", "poll"}
  /\ Leaves["register"] = {"device"} /\ Leaves["report"] = {"environment"}
  /\ Leaves["login"] = {"session"} /\ Leaves["submitRight"] = {"right"}
  /\ Leaves["submitWrong"] = {"wrong"} /\ Leaves["poll"] = {"verdicts"}
  BY DEF Leaves

LEMMA LeavesSome == \A r \in DOMAIN Leaves : Leaves[r] \subseteq Traces /\ r # "reset"
  BY LeavesTraces DEF Traces

LEMMA SendsWork ==
  ASSUME NEW r, Serves(r), work \subseteq Traces, sat \subseteq Traces
  PROVE  /\ work' \subseteq Traces /\ sat' \subseteq Traces /\ sat \subseteq sat'
         /\ r \in DOMAIN Leaves => Leaves[r] \subseteq sat'
  <1>1. CASE r = "reset"
    <2>1. work' = {} /\ r \notin DOMAIN Leaves /\ sat' = sat \union work'
      BY <1>1, Served, LeavesSome
    <2> QED BY <2>1
  <1>2. CASE r \in DOMAIN Leaves
    <2>1. work' = work \union Leaves[r] /\ Leaves[r] \subseteq Traces /\ sat' = sat \union work'
      BY <1>2, Served, LeavesSome
    <2> QED BY <2>1
  <1>3. CASE r # "reset" /\ r \notin DOMAIN Leaves
    <2>1. work' = work /\ sat' = sat \union work'
      BY <1>3, Served
    <2> QED BY <1>3, <2>1
  <1> QED BY <1>1, <1>2, <1>3

\* Only some requests touch the configuration, the enrolment or the row of the prior configuration.
LEMMA Touches ==
  ASSUME TypeOK, NEW s \in Scripts, NEW good \in BOOLEAN, Sends(s, good)
  PROVE  /\ s.stage \notin {"paper", "cleanup"} => UNCHANGED <<config, users, prior>>
         /\ s.stage = "paper" => prior' = prior
         /\ s.stage = "paper" /\ s.next = 1 => users' = users /\ (config' = config \/ (users = "none" /\ config' = RehearsalPaper))
         /\ s.stage = "paper" /\ s.next = 2 => config' = config /\ (users' = users \/ (users = "none" /\ users' = config.paper))
         /\ s.stage = "paper" /\ s.next = 3 => UNCHANGED <<config, users>>
         /\ s.stage = "cleanup" /\ s.next = 1 => UNCHANGED <<config, prior>> /\ (users' = "none" \/ (~ good /\ users' = users))
         /\ s.stage = "cleanup" /\ s.next = 4 => UNCHANGED <<users, prior>> /\ (config' = PutsBack \/ (~ good /\ config' = config))
         /\ s.stage = "cleanup" /\ s.next = 5 => UNCHANGED <<config, users>> /\ (prior' = None \/ (~ good /\ prior' = prior))
         /\ s.stage = "cleanup" /\ s.next \notin {1, 4, 5} => UNCHANGED <<config, users, prior>>
  <1> DEFINE r == Asked(s)
  <1>1. /\ ~ Answered(s)
        /\ \/ good /\ Serves(r) /\ (Ready(r) \/ r = "isForgotten")
           \/ ~ good /\ UNCHANGED <<exam, prior, sat>>
           \/ ~ good /\ StoresAndFails(r)
    BY SendsHow
  <1>2. CASE ~ good /\ UNCHANGED <<exam, prior, sat>>
    <2>1. config' = config /\ users' = users /\ prior' = prior
      BY <1>2 DEF exam
    <2> QED BY <1>2, <2>1
  <1>3. CASE ~ good /\ StoresAndFails(r)
    <2>1. s.stage = "paper" /\ s.next = 1
      <3>1. r = "upload"
        BY <1>3 DEF StoresAndFails
      <3>2. s.stage \in {"paper", "cleanup"}
        BY <1>1, <3>1, AskedByOthers DEF Small
      <3>3. s.stage # "cleanup"
        BY <1>1, <3>1, AskedByCleanup
      <3> QED BY <1>1, <3>1, <3>2, <3>3, AskedByPaper
    <2> QED BY <1>3, <2>1 DEF StoresAndFails
  <1>4. CASE good /\ Serves(r) /\ (Ready(r) \/ r = "isForgotten")
    <2>1. CASE s.stage = "paper"
      <3>1. CASE s.next = 1
        <4>1. r = "upload" /\ Ready(r)
          BY <1>1, <1>4, <2>1, <3>1, AskedByPaper
        <4>2. users = "none"
          BY <4>1 DEF Ready
        <4> QED BY <1>1, <1>4, <2>1, <3>1, <4>1, <4>2, Served
      <3>2. CASE s.next = 2
        <4>1. r = "init" /\ Ready(r)
          BY <1>1, <1>4, <2>1, <3>2, AskedByPaper
        <4>2. users = "none"
          BY <4>1 DEF Ready
        <4> QED BY <1>1, <1>4, <2>1, <3>2, <4>1, <4>2, Served
      <3>3. CASE s.next = 3
        BY <1>1, <1>4, <2>1, <3>3, AskedByPaper, Served
      <3> QED BY <1>1, <2>1, <3>1, <3>2, <3>3, AskedByPaper
    <2>2. CASE s.stage = "cleanup"
      <3>1. CASE s.next = 1
        BY <1>1, <1>4, <2>2, <3>1, AskedByCleanup, Served
      <3>2. CASE s.next = 4
        BY <1>1, <1>4, <2>2, <3>2, AskedByCleanup, Served
      <3>3. CASE s.next = 5
        BY <1>1, <1>4, <2>2, <3>3, AskedByCleanup, Served
      <3>4. CASE s.next \notin {1, 4, 5}
        <4>1. r \in {"isUninitialized", "isEmpty", "noDevices", "noSubmissions"}
          BY <1>1, <2>2, <3>4, AskedByCleanup
        <4>2. UNCHANGED <<config, users, prior>>
          BY <1>1, <1>4, <4>1, Served
        <4> QED BY <2>2, <3>4, <4>2
      <3> QED BY <3>1, <3>2, <3>3, <3>4
    <2>3. CASE s.stage \notin {"paper", "cleanup"}
      <3>1. r \in Small
        BY <1>1, <2>3, AskedByOthers
      <3>2. UNCHANGED <<config, users, prior>>
        BY <1>1, <1>4, <3>1, Served DEF Small
      <3> QED BY <2>3, <3>2
    <2> QED BY <2>1, <2>2, <2>3
  <1> QED BY <1>1, <1>2, <1>3, <1>4

\* What a request leaves has its type.
LEMMA SendsTypes ==
  ASSUME TypeOK, NEW s \in Scripts, NEW good \in BOOLEAN, Sends(s, good)
  PROVE  /\ config' \in Configurations /\ users' \in Papers /\ phase' \in Phases
         /\ work' \subseteq Traces /\ sat' \subseteq Traces
         /\ prior' \in Configurations \union {None}
         /\ sat \subseteq sat'
         /\ good /\ Asked(s) \in DOMAIN Leaves => Leaves[Asked(s)] \subseteq sat'
  <1> DEFINE r == Asked(s)
  <1>1. /\ ~ Answered(s)
        /\ \/ good /\ Serves(r)
           \/ ~ good /\ UNCHANGED <<exam, prior, sat>>
           \/ ~ good /\ StoresAndFails(r)
    BY SendsHow
  <1>2. /\ config \in Configurations /\ users \in Papers /\ phase \in Phases
        /\ work \subseteq Traces /\ sat \subseteq Traces
        /\ prior \in Configurations \union {None}
        /\ config.paper \in Papers
    BY DEF TypeOK, Configurations
  <1>3. RehearsalPaper \in Configurations /\ "none" \in Papers /\ PutsBack \in Configurations
    BY <1>2 DEF RehearsalPaper, Configurations, Papers, PutsBack
  <1>4. CASE ~ good /\ UNCHANGED <<exam, prior, sat>>
    BY <1>2, <1>4 DEF exam
  <1>5. CASE ~ good /\ StoresAndFails(r)
    BY <1>2, <1>3, <1>5 DEF StoresAndFails
  <1>6. CASE good /\ Serves(r)
    <2>1. config' \in Configurations
      BY <1>1, <1>2, <1>3, <1>6, Served
    <2>2. users' \in Papers
      BY <1>1, <1>2, <1>3, <1>6, Served
    <2>3. prior' \in Configurations \union {None}
      BY <1>1, <1>2, <1>3, <1>6, Served
    <2>4. phase' \in Phases
      BY <1>1, <1>2, <1>6, Served, EntersPhases
    <2> QED BY <1>1, <1>2, <1>6, <2>1, <2>2, <2>3, <2>4, SendsWork
  <1> QED BY <1>1, <1>4, <1>5, <1>6

--------------------------------------------------------------------------------
(* Reports *)

\* A report whose fields are these.
LEMMA ReportOf ==
  ASSUME NEW st \in Terminal \union {"queued", "running"}, NEW ss \in [StageIds -> Statuses],
         NEW own \in BOOLEAN, NEW cl \in BOOLEAN, NEW oc \in Outcomes \union {None}
  PROVE  [state |-> st, stages |-> ss, ownsSystemState |-> own, cleanupCompleted |-> cl,
          overallOutcome |-> oc] \in Reports
  BY DEF Reports

LEMMA FieldsOf ==
  ASSUME NEW r \in Reports
  PROVE  /\ r = [state |-> r.state, stages |-> r.stages, ownsSystemState |-> r.ownsSystemState,
                 cleanupCompleted |-> r.cleanupCompleted, overallOutcome |-> r.overallOutcome]
         /\ r.state \in Terminal \union {"queued", "running"} /\ r.stages \in [StageIds -> Statuses]
         /\ r.ownsSystemState \in BOOLEAN /\ r.cleanupCompleted \in BOOLEAN
         /\ r.overallOutcome \in Outcomes \union {None}
         /\ r # None
  BY NoneAssumption DEF Reports

LEMMA BlankIsReport == Blank \in Reports
  <1>1. [s \in StageIds |-> "pending"] \in [StageIds -> Statuses]
    BY DEF Statuses
  <1> QED BY <1>1, ReportOf DEF Blank

\* A stage is marked and the rest of the report kept.
LEMMA MarksHold ==
  ASSUME NEW r \in Reports, NEW g \in StageIds, NEW v \in Statuses
  PROVE  /\ Marks(r, g, v) \in Reports
         /\ Marks(r, g, v).stages = [r.stages EXCEPT ![g] = v]
         /\ Marks(r, g, v).state = r.state
         /\ Marks(r, g, v).ownsSystemState = r.ownsSystemState
         /\ Marks(r, g, v).cleanupCompleted = r.cleanupCompleted
         /\ Marks(r, g, v).overallOutcome = r.overallOutcome
  <1> DEFINE ss == [r.stages EXCEPT ![g] = v]
  <1>1. ss \in [StageIds -> Statuses]
    BY FieldsOf
  <1>2. Marks(r, g, v) = [state |-> r.state, stages |-> ss, ownsSystemState |-> r.ownsSystemState,
                 cleanupCompleted |-> r.cleanupCompleted, overallOutcome |-> r.overallOutcome]
    BY FieldsOf DEF Marks
  <1> HIDE DEF ss
  <1>3. Marks(r, g, v) \in Reports
    BY <1>1, <1>2, FieldsOf, ReportOf
  <1>4. /\ Marks(r, g, v).stages = ss
        /\ Marks(r, g, v).state = r.state
        /\ Marks(r, g, v).ownsSystemState = r.ownsSystemState
        /\ Marks(r, g, v).cleanupCompleted = r.cleanupCompleted
        /\ Marks(r, g, v).overallOutcome = r.overallOutcome
    BY <1>2
  <1> QED BY <1>3, <1>4 DEF ss

LEMMA SkippedHolds ==
  ASSUME NEW r \in Reports
  PROVE  /\ Skipped(r) \in Reports
         /\ \A s \in StageIds : Skipped(r).stages[s] =
              IF s # "cleanup" /\ r.stages[s] = "pending" THEN "skipped" ELSE r.stages[s]
         /\ Skipped(r).state = r.state
         /\ Skipped(r).ownsSystemState = r.ownsSystemState
         /\ Skipped(r).cleanupCompleted = r.cleanupCompleted
         /\ Skipped(r).overallOutcome = r.overallOutcome
  <1> DEFINE ss == [s \in StageIds |-> IF s # "cleanup" /\ r.stages[s] = "pending" THEN "skipped" ELSE r.stages[s]]
  <1>1. ss \in [StageIds -> Statuses]
    BY FieldsOf DEF Statuses
  <1>2. Skipped(r) = [state |-> r.state, stages |-> ss, ownsSystemState |-> r.ownsSystemState,
                 cleanupCompleted |-> r.cleanupCompleted, overallOutcome |-> r.overallOutcome]
    BY FieldsOf DEF Skipped
  <1>3. \A s \in StageIds : ss[s] = IF s # "cleanup" /\ r.stages[s] = "pending" THEN "skipped" ELSE r.stages[s]
    OBVIOUS
  <1> HIDE DEF ss
  <1>4. Skipped(r) \in Reports
    BY <1>1, <1>2, FieldsOf, ReportOf
  <1> QED BY <1>2, <1>3, <1>4

\* Other fields are set and the rest of the report kept.
LEMMA SetsState ==
  ASSUME NEW r \in Reports, NEW x \in Terminal \union {"queued", "running"}
  PROVE  /\ [r EXCEPT !.state = x] \in Reports
         /\ [r EXCEPT !.state = x].state = x
         /\ [r EXCEPT !.state = x].stages = r.stages
         /\ [r EXCEPT !.state = x].ownsSystemState = r.ownsSystemState
         /\ [r EXCEPT !.state = x].cleanupCompleted = r.cleanupCompleted
         /\ [r EXCEPT !.state = x].overallOutcome = r.overallOutcome
  <1>1. [r EXCEPT !.state = x] =
          [state |-> x, stages |-> r.stages, ownsSystemState |-> r.ownsSystemState,
           cleanupCompleted |-> r.cleanupCompleted, overallOutcome |-> r.overallOutcome]
    BY FieldsOf
  <1> QED BY <1>1, FieldsOf, ReportOf

LEMMA SetsCleanup ==
  ASSUME NEW r \in Reports, NEW x \in BOOLEAN
  PROVE  /\ [r EXCEPT !.cleanupCompleted = x] \in Reports
         /\ [r EXCEPT !.cleanupCompleted = x].state = r.state
         /\ [r EXCEPT !.cleanupCompleted = x].stages = r.stages
         /\ [r EXCEPT !.cleanupCompleted = x].ownsSystemState = r.ownsSystemState
         /\ [r EXCEPT !.cleanupCompleted = x].cleanupCompleted = x
         /\ [r EXCEPT !.cleanupCompleted = x].overallOutcome = r.overallOutcome
  <1>1. [r EXCEPT !.cleanupCompleted = x] =
          [state |-> r.state, stages |-> r.stages, ownsSystemState |-> r.ownsSystemState,
           cleanupCompleted |-> x, overallOutcome |-> r.overallOutcome]
    BY FieldsOf
  <1> QED BY <1>1, FieldsOf, ReportOf

\* The verdict that a finished rehearsal stores, and one that broke off.
LEMMA SetsVerdict ==
  ASSUME NEW r \in Reports, NEW x \in Terminal \union {"queued", "running"}, NEW y \in Outcomes
  PROVE  [r EXCEPT !.state = x, !.overallOutcome = y] =
           [state |-> x, stages |-> r.stages, ownsSystemState |-> r.ownsSystemState,
            cleanupCompleted |-> r.cleanupCompleted, overallOutcome |-> y]
  <1> DEFINE before == [r EXCEPT !.state = x]
  <1>1. [r EXCEPT !.state = x, !.overallOutcome = y] = [before EXCEPT !.overallOutcome = y]
    OBVIOUS
  <1>2. before = [state |-> x, stages |-> r.stages, ownsSystemState |-> r.ownsSystemState,
                  cleanupCompleted |-> r.cleanupCompleted, overallOutcome |-> r.overallOutcome]
    BY FieldsOf
  <1> HIDE DEF before
  <1>3. [before EXCEPT !.overallOutcome = y] =
           [state |-> x, stages |-> r.stages, ownsSystemState |-> r.ownsSystemState,
            cleanupCompleted |-> r.cleanupCompleted, overallOutcome |-> y]
    BY <1>2
  <1> QED BY <1>1, <1>3

LEMMA VerdictOf ==
  ASSUME NEW r \in Reports, NEW x \in Terminal \union {"queued", "running"}, NEW y \in Outcomes, NEW after,
         after = [state |-> x, stages |-> r.stages, ownsSystemState |-> r.ownsSystemState,
                  cleanupCompleted |-> r.cleanupCompleted, overallOutcome |-> y]
  PROVE  /\ after \in Reports /\ after.state = x /\ after.stages = r.stages
         /\ after.ownsSystemState = r.ownsSystemState
         /\ after.cleanupCompleted = r.cleanupCompleted /\ after.overallOutcome = y
  <1>1. y \in Outcomes \union {None}
    OBVIOUS
  <1>2. after \in Reports
    BY <1>1, FieldsOf, ReportOf
  <1> QED BY <1>2

LEMMA BrokenHolds ==
  ASSUME run \in Reports
  PROVE  /\ BrokenReport \in Reports /\ BrokenReport.state = "failed"
         /\ BrokenReport.ownsSystemState = run.ownsSystemState
         /\ BrokenReport.cleanupCompleted = run.cleanupCompleted
         /\ BrokenReport.overallOutcome = "failed"
  <1>1. "failed" \in Terminal \union {"queued", "running"} /\ "failed" \in Outcomes
    BY DEF Terminal, Outcomes
  <1>2. BrokenReport = [state |-> "failed", stages |-> run.stages, ownsSystemState |-> run.ownsSystemState,
                        cleanupCompleted |-> run.cleanupCompleted, overallOutcome |-> "failed"]
    BY <1>1, SetsVerdict DEF BrokenReport
  <1> QED BY <1>1, <1>2, VerdictOf

\* The last report of a rehearsal that finishes.
LEMMA FinishHolds ==
  ASSUME run \in Reports, Finishes, pc' = "idle"
  PROVE  /\ record' \in Reports /\ record'.state = IF expired THEN "interrupted" ELSE "completed"
         /\ record'.stages = run.stages
         /\ record'.ownsSystemState = run.ownsSystemState
         /\ record'.cleanupCompleted = run.cleanupCompleted
         /\ record'.overallOutcome = Verdict(run)
         /\ lease' = FALSE /\ FreshLocals /\ faults' = faults
  <1> DEFINE x == IF expired THEN "interrupted" ELSE "completed"
  <1>1. /\ record' = [run EXCEPT !.state = x, !.overallOutcome = Verdict(run)]
        /\ lease' = FALSE /\ FreshLocals /\ faults' = faults
    BY DEF Finishes
  <1>2. x \in Terminal \union {"queued", "running"} /\ Verdict(run) \in Outcomes
    BY DEF Terminal, Outcomes, Verdict
  <1> HIDE DEF x
  <1>3. record' = [state |-> x, stages |-> run.stages, ownsSystemState |-> run.ownsSystemState,
                   cleanupCompleted |-> run.cleanupCompleted, overallOutcome |-> Verdict(run)]
    BY <1>1, <1>2, SetsVerdict
  <1>4. /\ record' \in Reports /\ record'.state = x
        /\ record'.stages = run.stages
        /\ record'.ownsSystemState = run.ownsSystemState
        /\ record'.cleanupCompleted = run.cleanupCompleted
        /\ record'.overallOutcome = Verdict(run)
    BY <1>2, <1>3, VerdictOf
  <1> QED BY <1>1, <1>4 DEF x

\* The cleanup is skipped.
LEMMA SkipsHold ==
  ASSUME NEW r \in Reports, NEW after,
         after = [r EXCEPT !.stages["cleanup"] = "skipped", !.cleanupCompleted = TRUE]
  PROVE  /\ after \in Reports
         /\ after.state = r.state /\ after.ownsSystemState = r.ownsSystemState
         /\ after.cleanupCompleted /\ after.overallOutcome = r.overallOutcome
         /\ after.stages = [r.stages EXCEPT !["cleanup"] = "skipped"]
  <1> DEFINE before == Marks(r, "cleanup", "skipped")
  <1>1. after = [before EXCEPT !.cleanupCompleted = TRUE]
    BY DEF Marks
  <1>2. /\ before \in Reports /\ before.state = r.state /\ before.ownsSystemState = r.ownsSystemState
        /\ before.overallOutcome = r.overallOutcome
        /\ before.stages = [r.stages EXCEPT !["cleanup"] = "skipped"]
    <2>1. "cleanup" \in StageIds /\ "skipped" \in Statuses
      BY DEF StageIds, Statuses
    <2> QED BY <2>1, MarksHold
  <1> HIDE DEF before
  <1> QED BY <1>1, <1>2, SetsCleanup

\* The recovery settles the record a killed rehearsal left.
LEMMA BootReport ==
  ASSUME TypeOK, record # None, BootSaves
  PROVE  /\ record' \in Reports /\ record'.state = "interrupted"
         /\ record'.overallOutcome = "interrupted"
         /\ record'.ownsSystemState = record.ownsSystemState
         /\ record'.cleanupCompleted = run.cleanupCompleted
  <1> DEFINE ss == [s \in StageIds |-> CASE record.stages[s] = "running" -> "failed"
                                        [] record.stages[s] = "pending" -> "skipped"
                                        [] OTHER -> record.stages[s]]
  <1>1. record \in Reports /\ run.cleanupCompleted \in BOOLEAN
    BY FieldsOf DEF TypeOK
  <1>2. ss \in [StageIds -> Statuses]
    <2>1. ASSUME NEW s \in StageIds
          PROVE  ss[s] \in Statuses
      BY <1>1, FieldsOf DEF Statuses
    <2> QED BY <2>1
  <1>3. record' = [record EXCEPT !.state = "interrupted", !.overallOutcome = "interrupted",
                     !.cleanupCompleted = run.cleanupCompleted, !.stages = ss]
    BY DEF BootSaves
  <1> HIDE DEF ss
  <1>4. record' = [state |-> "interrupted", stages |-> ss, ownsSystemState |-> record.ownsSystemState,
                   cleanupCompleted |-> run.cleanupCompleted, overallOutcome |-> "interrupted"]
    <2>1. record = [state |-> record.state, stages |-> record.stages,
                    ownsSystemState |-> record.ownsSystemState,
                    cleanupCompleted |-> record.cleanupCompleted,
                    overallOutcome |-> record.overallOutcome]
      BY <1>1, FieldsOf
    <2> QED BY <1>3, <2>1
  <1>5. record' \in Reports
    BY <1>1, <1>2, <1>4, FieldsOf, ReportOf DEF Terminal, Outcomes
  <1> QED BY <1>4, <1>5

\* A save stores the report, or is rejected and ends execute.
LEMMA SavesHow ==
  ASSUME TypeOK, NEW report \in Reports, NEW next, NEW after, Saves(report, next, after)
  PROVE  /\ faults' \in 0..MaxFaults
         /\ \/ record' = report /\ run' = after /\ pc' = next
            \/ record' = record /\ run' = report /\ pc' = "broken"
  BY BoundsAssumption DEF TypeOK, Saves, Fault

--------------------------------------------------------------------------------
(* Types *)

Building == StageIds \ {"cleanup"}

LEMMA BuildStagesAre ==
  /\ BuildStages[1] = "paper" /\ BuildStages[2] = "enrol" /\ BuildStages[3] = "admit"
  /\ BuildStages[4] = "submit" /\ BuildStages[5] = "grade"
  /\ \A i \in 1..5 : BuildStages[i] \in Building
  BY DEF BuildStages, Building, StageIds

\* The stage to go on with is the first that is pending; there is none behind the fifth.
LEMMA NextStageIs ==
  /\ NextStage \in 1..6
  /\ NextStage <= 5 => run.stages[BuildStages[NextStage]] = "pending"
  /\ \A j \in 1..5 : j < NextStage => run.stages[BuildStages[j]] # "pending"
  <1> DEFINE P(i) == /\ i <= 5 => run.stages[BuildStages[i]] = "pending"
                     /\ \A j \in 1..5 : j < i => run.stages[BuildStages[j]] # "pending"
             is(j) == run.stages[BuildStages[j]] = "pending"
  <1>1. \E i \in 1..6 : P(i)
    <2>1. is(1) => P(1)
      OBVIOUS
    <2>2. ~ is(1) /\ is(2) => P(2)
      OBVIOUS
    <2>3. ~ is(1) /\ ~ is(2) /\ is(3) => P(3)
      OBVIOUS
    <2>4. ~ is(1) /\ ~ is(2) /\ ~ is(3) /\ is(4) => P(4)
      OBVIOUS
    <2>5. ~ is(1) /\ ~ is(2) /\ ~ is(3) /\ ~ is(4) /\ is(5) => P(5)
      OBVIOUS
    <2>6. ~ is(1) /\ ~ is(2) /\ ~ is(3) /\ ~ is(4) /\ ~ is(5) => P(6)
      OBVIOUS
    <2> HIDE DEF P, is
    <2> QED BY <2>1, <2>2, <2>3, <2>4, <2>5, <2>6
  <1>2. NextStage = CHOOSE i \in 1..6 : P(i)
    BY DEF NextStage
  <1> HIDE DEF P
  <1>3. NextStage \in 1..6 /\ P(NextStage)
    BY <1>1, <1>2
  <1> QED BY <1>3 DEF P

LEMMA FreshTypes ==
  ASSUME FreshLocals
  PROVE  run' \in Reports /\ at' \in StageIds /\ step' \in Scripts /\ mutated' = FALSE /\ expired' = FALSE
  <1>1. NoScript \in Scripts
    BY DEF NoScript, Scripts, StageIds
  <1> QED BY <1>1, BlankIsReport DEF FreshLocals, StageIds

\* A stage is opened: its report, its script.
LEMMA OpensHow ==
  ASSUME TypeOK, NEW report \in Reports, NEW g \in StageIds, Opens(report, g)
  PROVE  /\ at' = g /\ step' = [stage |-> g, next |-> 1, ok |-> TRUE, uploaded |-> FALSE]
         /\ step' \in Scripts /\ step'.stage = g /\ step'.next = 1
         /\ run' = Marks(report, g, "running") /\ run' \in Reports
         /\ faults' \in 0..MaxFaults
         /\ \/ record' = run' /\ pc' = "race"
            \/ record' = record /\ pc' = "broken"
  <1> DEFINE opened == Marks(report, g, "running")
  <1>1. opened \in Reports
    BY MarksHold DEF Statuses
  <1>2. /\ at' = g /\ step' = [NoScript EXCEPT !.stage = g]
        /\ Saves(opened, "race", opened)
    BY DEF Opens
  <1> HIDE DEF opened
  <1>3. /\ faults' \in 0..MaxFaults
        /\ \/ record' = opened /\ run' = opened /\ pc' = "race"
           \/ record' = record /\ run' = opened /\ pc' = "broken"
    BY <1>1, <1>2, SavesHow
  <1>4. step' = [stage |-> g, next |-> 1, ok |-> TRUE, uploaded |-> FALSE]
    BY <1>2 DEF NoScript
  <1>5. step' \in Scripts /\ step'.stage = g /\ step'.next = 1
    BY <1>4 DEF Scripts
  <1> QED BY <1>1, <1>2, <1>3, <1>4, <1>5 DEF opened

\* A stage is closed: its report, and where the rehearsal goes on.
LEMMA ClosesHow ==
  ASSUME TypeOK, NEW status \in {"passed", "failed"}, NEW uploaded \in BOOLEAN, Closes(status, uploaded)
  PROVE  /\ run' \in Reports /\ record' \in Reports \union {None} /\ faults' \in 0..MaxFaults
         /\ mutated' = IF at = "paper" THEN uploaded ELSE TRUE
         /\ run'.stages = [run.stages EXCEPT ![at] = status]
         /\ run'.state = run.state /\ run'.ownsSystemState = run.ownsSystemState
         /\ run'.overallOutcome = run.overallOutcome
         /\ \/ /\ record' = Marks(run, at, status)
               /\ at = "cleanup" => pc' = "finish" /\ (run'.cleanupCompleted <=> status = "passed")
               /\ at # "cleanup" => /\ pc' = IF status = "passed" THEN "walk" ELSE "settle"
                                    /\ run'.cleanupCompleted = run.cleanupCompleted
            \/ /\ record' = record /\ pc' = "broken"
               /\ run'.cleanupCompleted = run.cleanupCompleted
  <1> DEFINE closed == Marks(run, at, status)
             next == IF at = "cleanup" THEN "finish" ELSE IF status = "passed" THEN "walk" ELSE "settle"
             after == IF at = "cleanup" THEN [closed EXCEPT !.cleanupCompleted = (status = "passed")] ELSE closed
  <1>1. /\ closed \in Reports
        /\ closed.stages = [run.stages EXCEPT ![at] = status]
        /\ closed.state = run.state /\ closed.ownsSystemState = run.ownsSystemState
        /\ closed.cleanupCompleted = run.cleanupCompleted
        /\ closed.overallOutcome = run.overallOutcome
    <2>1. run \in Reports /\ at \in StageIds /\ status \in Statuses
      BY DEF TypeOK, Statuses
    <2> QED BY <2>1, MarksHold
  <1>2. Saves(closed, next, after) /\ mutated' = IF at = "paper" THEN uploaded ELSE TRUE
    BY DEF Closes
  <1>3. /\ after \in Reports
        /\ after.stages = closed.stages /\ after.state = closed.state
        /\ after.ownsSystemState = closed.ownsSystemState
        /\ at = "cleanup" => (after.cleanupCompleted <=> status = "passed")
        /\ at # "cleanup" => after.cleanupCompleted = closed.cleanupCompleted
        /\ after.overallOutcome = closed.overallOutcome
    <2> HIDE DEF closed
    <2>1. (status = "passed") \in BOOLEAN
      OBVIOUS
    <2> QED BY <1>1, <2>1, SetsCleanup
  <1>4. record \in Reports \union {None}
    BY DEF TypeOK
  <1> HIDE DEF closed, next, after
  <1>5. /\ faults' \in 0..MaxFaults
        /\ \/ record' = closed /\ run' = after /\ pc' = next
           \/ record' = record /\ run' = closed /\ pc' = "broken"
    BY <1>1, <1>2, SavesHow
  <1>6. CASE record' = closed /\ run' = after /\ pc' = next
    <2>1. record' = Marks(run, at, status)
      BY <1>6 DEF closed
    <2>2. /\ at = "cleanup" => pc' = "finish"
          /\ at # "cleanup" => pc' = IF status = "passed" THEN "walk" ELSE "settle"
      BY <1>6 DEF next
    <2>3. record' \in Reports \union {None}
      BY <1>1, <1>6
    <2> QED BY <1>1, <1>2, <1>3, <1>5, <1>6, <2>1, <2>2, <2>3
  <1>7. CASE record' = record /\ run' = closed /\ pc' = "broken"
    BY <1>1, <1>2, <1>4, <1>5, <1>7
  <1> QED BY <1>5, <1>6, <1>7

\* Types of what only counts, of what is remembered, and of the rest.
Counters == /\ runs \in 0..MaxRuns /\ changes \in 0..MaxChanges /\ faults \in 0..MaxFaults
            /\ {blind, threw, orphaned} \subseteq BOOLEAN
ExamTypes == /\ config \in Configurations /\ users \in Papers /\ phase \in Phases /\ work \subseteq Traces
             /\ prior \in Configurations \union {None} /\ had \in Configurations /\ sat \subseteq Traces
WalkTypes == /\ record \in Reports \union {None}
             /\ pc \in {"idle"} \union OrchestratorPcs \union BootPcs
             /\ lease \in BOOLEAN /\ run \in Reports /\ at \in StageIds
             /\ step \in Scripts /\ late \subseteq Scripts
             /\ mutated \in BOOLEAN /\ expired \in BOOLEAN

LEMMA TypeParts == TypeOK <=> Counters /\ ExamTypes /\ WalkTypes
  BY DEF TypeOK, Counters, ExamTypes, WalkTypes

LEMMA FaultTypes == TypeOK /\ Fault => faults' \in 0..MaxFaults
  BY BoundsAssumption DEF TypeOK, Fault

LEMMA TypeStep == TypeOK /\ (pc \in BootPcs => record # None) /\ [Next]_vars => TypeOK'
  <1> SUFFICES ASSUME TypeOK, pc \in BootPcs => record # None, [Next]_vars
               PROVE  Counters' /\ ExamTypes' /\ WalkTypes'
    BY TypeParts DEF Counters, ExamTypes, WalkTypes, TypeOK
  <1> USE BoundsAssumption, SettingsAssumption
  <1>t. Counters /\ ExamTypes /\ WalkTypes
    BY TypeParts
  <1>1. CASE Start
    <2>1. Counters'
      BY <1>t, <1>1 DEF Counters, Start, MayStart, Fault
    <2>2. ExamTypes'
      BY <1>t, <1>1 DEF ExamTypes, Start, MayStart, exam, rows
    <2>3. WalkTypes'
      BY <1>t, <1>1 DEF WalkTypes, Start, MayStart, rows, OrchestratorPcs
    <2> QED BY <2>1, <2>2, <2>3
  <1>2. CASE Rejects
    <2>1. Counters'
      BY <1>t, <1>2, FaultTypes DEF Counters, Rejects
    <2>2. ExamTypes'
      BY <1>t, <1>2 DEF ExamTypes, Rejects, exam, rows
    <2>3. WalkTypes'
      BY <1>t, <1>2 DEF WalkTypes, Rejects, rows
    <2> QED BY <2>1, <2>2, <2>3
  <1>3. CASE Claims
    <2>1. Counters'
      BY <1>t, <1>3 DEF Counters, Claims, counts
    <2>2. ExamTypes'
      BY <1>t, <1>3 DEF ExamTypes, Claims, exam
    <2>3. WalkTypes'
      BY <1>t, <1>3 DEF WalkTypes, Claims, OrchestratorPcs
    <2> QED BY <2>1, <2>2, <2>3
  <1>4. CASE Remembers
    <2>1. Counters'
      BY <1>t, <1>4 DEF Counters, Remembers, counts, history
    <2>2. ExamTypes'
      BY <1>t, <1>4 DEF ExamTypes, Remembers, exam, history
    <2>3. WalkTypes'
      BY <1>t, <1>4 DEF WalkTypes, Remembers, OrchestratorPcs
    <2> QED BY <2>1, <2>2, <2>3
  <1>5. CASE Executes
    <2> DEFINE running == [run EXCEPT !.state = "running"]
    <2>1. /\ faults' \in 0..MaxFaults
          /\ run' \in Reports /\ record' \in Reports \union {None} /\ pc' \in {"walk", "broken"}
      <3>1. running \in Reports
        BY <1>t, SetsState DEF WalkTypes
      <3>2. Saves(running, "walk", running)
        BY <1>5 DEF Executes
      <3> HIDE DEF running
      <3> QED BY <1>t, <3>1, <3>2, SavesHow DEF WalkTypes
    <2>2. UNCHANGED <<exam, prior, lease, at, step, late, mutated, expired, runs, changes, history>>
      BY <1>5 DEF Executes
    <2>3. Counters'
      BY <1>t, <2>1, <2>2 DEF Counters, history
    <2>4. ExamTypes'
      BY <1>t, <2>2 DEF ExamTypes, exam, history
    <2>5. WalkTypes'
      BY <1>t, <2>1, <2>2 DEF WalkTypes, OrchestratorPcs
    <2> QED BY <2>3, <2>4, <2>5
  <1>6. CASE WalksOn
    <2>1. /\ at' \in StageIds /\ step' \in Scripts /\ run' \in Reports /\ faults' \in 0..MaxFaults
          /\ record' \in Reports \union {None} /\ pc' \in {"race", "broken"}
      <3>1. BuildStages[NextStage] \in StageIds /\ run \in Reports
        BY <1>t, <1>6, NextStageIs, BuildStagesAre DEF WalksOn, Building, WalkTypes
      <3>2. Opens(run, BuildStages[NextStage])
        BY <1>6 DEF WalksOn
      <3> QED BY <1>t, <3>1, <3>2, OpensHow DEF WalkTypes
    <2>2. UNCHANGED <<exam, prior, lease, late, mutated, expired, runs, changes, history>>
      BY <1>6 DEF WalksOn
    <2>3. Counters'
      BY <1>t, <2>1, <2>2 DEF Counters, history
    <2>4. ExamTypes'
      BY <1>t, <2>2 DEF ExamTypes, exam, history
    <2>5. WalkTypes'
      BY <1>t, <2>1, <2>2 DEF WalkTypes, OrchestratorPcs
    <2> QED BY <2>3, <2>4, <2>5
  <1>7. CASE StopsWalking
    <2>1. Counters'
      BY <1>t, <1>7 DEF Counters, StopsWalking, counts, history
    <2>2. ExamTypes'
      BY <1>t, <1>7 DEF ExamTypes, StopsWalking, exam, rows, history
    <2>3. WalkTypes'
      BY <1>t, <1>7 DEF WalkTypes, StopsWalking, rows, OrchestratorPcs
    <2> QED BY <2>1, <2>2, <2>3
  <1>8. CASE Requests
    <2> PICK good \in BOOLEAN : Sends(step, good) /\ step' = After(step, good)
      BY <1>8 DEF Requests
    <2>1. step \in Scripts /\ step' \in Scripts /\ faults' \in 0..MaxFaults
      BY <1>t, SendsHow, GoesOn DEF WalkTypes
    <2>2. UNCHANGED <<record, pc, lease, run, at, late, mutated, expired, runs, changes, had, blind, threw, orphaned>>
      BY <1>8 DEF Requests
    <2>3. Counters'
      BY <1>t, <2>1, <2>2 DEF Counters
    <2>4. ExamTypes'
      BY <1>t, <2>1, <2>2, SendsTypes DEF ExamTypes
    <2>5. WalkTypes'
      BY <1>t, <2>1, <2>2 DEF WalkTypes
    <2> QED BY <2>3, <2>4, <2>5
  <1>9. CASE Answers
    <2>1. /\ run' \in Reports /\ record' \in Reports \union {None} /\ faults' \in 0..MaxFaults
          /\ mutated' \in BOOLEAN /\ pc' \in OrchestratorPcs
      <3>1. /\ (IF step.ok THEN "passed" ELSE "failed") \in {"passed", "failed"}
            /\ step.uploaded \in BOOLEAN
        BY <1>t DEF WalkTypes, Scripts
      <3>2. Closes(IF step.ok THEN "passed" ELSE "failed", step.uploaded)
        BY <1>9 DEF Answers
      <3> QED BY <3>1, <3>2, ClosesHow DEF OrchestratorPcs
    <2>2. UNCHANGED <<exam, prior, lease, at, step, late, expired, runs, changes, history>>
      BY <1>9 DEF Answers
    <2>3. Counters'
      BY <1>t, <2>1, <2>2 DEF Counters, history
    <2>4. ExamTypes'
      BY <1>t, <2>2 DEF ExamTypes, exam, history
    <2>5. WalkTypes'
      BY <1>t, <2>1, <2>2 DEF WalkTypes
    <2> QED BY <2>3, <2>4, <2>5
  <1>10. CASE TimesOut
    <2>1. /\ run' \in Reports /\ record' \in Reports \union {None} /\ faults' \in 0..MaxFaults
          /\ mutated' \in BOOLEAN /\ pc' \in OrchestratorPcs
      <3>1. Closes("failed", FALSE)
        BY <1>10 DEF TimesOut
      <3> QED BY <3>1, ClosesHow DEF OrchestratorPcs
    <2>2. /\ UNCHANGED <<exam, prior, lease, at, step, expired, runs, changes, history>>
          /\ late' = late \union Unheard(step)
      BY <1>10 DEF TimesOut
    <2>3. late' \subseteq Scripts
      BY <1>t, <2>2, UnheardGoesOn DEF WalkTypes
    <2>4. Counters'
      BY <1>t, <2>1, <2>2 DEF Counters, history
    <2>5. ExamTypes'
      BY <1>t, <2>2 DEF ExamTypes, exam, history
    <2>6. WalkTypes'
      BY <1>t, <2>1, <2>2, <2>3 DEF WalkTypes
    <2> QED BY <2>4, <2>5, <2>6
  <1>11. CASE LateRequests
    <2> PICK s \in late, good \in BOOLEAN : Sends(s, good) /\ late' = (late \ {s}) \union Unheard(After(s, good))
      BY <1>11 DEF LateRequests
    <2>1. s \in Scripts /\ faults' \in 0..MaxFaults /\ late' \subseteq Scripts
      <3>1. s \in Scripts
        BY <1>t DEF WalkTypes
      <3>2. ~ Answered(s) /\ faults' \in 0..MaxFaults
        BY <3>1, SendsHow
      <3>3. After(s, good) \in Scripts
        BY <3>1, <3>2, GoesOn
      <3> QED BY <1>t, <3>1, <3>2, <3>3, UnheardGoesOn DEF WalkTypes
    <2>2. UNCHANGED <<record, pc, lease, run, at, step, mutated, expired, runs, changes, had, blind, threw, orphaned>>
      BY <1>11 DEF LateRequests
    <2>3. Counters'
      BY <1>t, <2>1, <2>2 DEF Counters
    <2>4. ExamTypes'
      BY <1>t, <2>1, <2>2, SendsTypes DEF ExamTypes
    <2>5. WalkTypes'
      BY <1>t, <2>1, <2>2 DEF WalkTypes
    <2> QED BY <2>3, <2>4, <2>5
  <1>12. CASE CleansUp
    <2>1. /\ at' \in StageIds /\ step' \in Scripts /\ run' \in Reports /\ faults' \in 0..MaxFaults
          /\ record' \in Reports \union {None} /\ pc' \in {"race", "broken"}
      <3>1. Skipped(run) \in Reports /\ "cleanup" \in StageIds
        BY <1>t, SkippedHolds DEF WalkTypes, StageIds
      <3>2. Opens(Skipped(run), "cleanup")
        BY <1>12 DEF CleansUp
      <3> QED BY <1>t, <3>1, <3>2, OpensHow DEF WalkTypes
    <2>2. UNCHANGED <<exam, prior, lease, late, mutated, expired, runs, changes, history>>
      BY <1>12 DEF CleansUp
    <2>3. Counters'
      BY <1>t, <2>1, <2>2 DEF Counters, history
    <2>4. ExamTypes'
      BY <1>t, <2>2 DEF ExamTypes, exam, history
    <2>5. WalkTypes'
      BY <1>t, <2>1, <2>2 DEF WalkTypes, OrchestratorPcs
    <2> QED BY <2>3, <2>4, <2>5
  <1>13. CASE SkipsCleanup
    <2>1. run' \in Reports
      <3>1. Skipped(run) \in Reports
        BY <1>t, SkippedHolds DEF WalkTypes
      <3>2. run' = [Skipped(run) EXCEPT !.stages["cleanup"] = "skipped", !.cleanupCompleted = TRUE]
        BY <1>13 DEF SkipsCleanup
      <3> QED BY <3>1, <3>2, SkipsHold
    <2>2. Counters'
      BY <1>t, <1>13 DEF Counters, SkipsCleanup, counts
    <2>3. ExamTypes'
      BY <1>t, <1>13 DEF ExamTypes, SkipsCleanup, exam, rows
    <2>4. WalkTypes'
      BY <1>t, <1>13, <2>1 DEF WalkTypes, SkipsCleanup, rows, OrchestratorPcs
    <2> QED BY <2>2, <2>3, <2>4
  <1>14. CASE Finishes
    <2>1. /\ run' \in Reports /\ record' \in Reports \union {None} /\ faults' \in 0..MaxFaults
          /\ pc' \in {"idle", "broken"} /\ lease' \in BOOLEAN /\ at' \in StageIds /\ step' \in Scripts
          /\ mutated' \in BOOLEAN /\ expired' \in BOOLEAN
      <3>1. CASE pc' = "idle"
        <4>1. record' \in Reports /\ lease' = FALSE /\ FreshLocals /\ faults' = faults
          BY <1>t, <1>14, <3>1, FinishHolds DEF WalkTypes
        <4> QED BY <1>t, <3>1, <4>1, FreshTypes DEF Counters
      <3>2. CASE Fault /\ pc' = "broken" /\ UNCHANGED <<record, lease, run, at, step, mutated, expired>>
        BY <1>t, <3>2, FaultTypes DEF WalkTypes
      <3> QED BY <1>14, <3>1, <3>2 DEF Finishes
    <2>2. UNCHANGED <<exam, prior, late, runs, changes, history>>
      BY <1>14 DEF Finishes
    <2>3. Counters'
      BY <1>t, <2>1, <2>2 DEF Counters, history
    <2>4. ExamTypes'
      BY <1>t, <2>2 DEF ExamTypes, exam, history
    <2>5. WalkTypes'
      BY <1>t, <2>1, <2>2 DEF WalkTypes, OrchestratorPcs
    <2> QED BY <2>3, <2>4, <2>5
  <1>15. CASE BreaksOff
    <2>1. BrokenReport \in Reports
      BY <1>t, BrokenHolds DEF WalkTypes
    <2>2. Counters'
      BY <1>t, <1>15, FaultTypes DEF Counters, BreaksOff
    <2>3. ExamTypes'
      BY <1>t, <1>15 DEF ExamTypes, BreaksOff, exam
    <2>4. WalkTypes'
      BY <1>t, <1>15, <2>1, FreshTypes DEF WalkTypes, BreaksOff
    <2> QED BY <2>2, <2>3, <2>4
  <1>16. CASE Crash
    <2>1. Counters'
      BY <1>t, <1>16, FaultTypes DEF Counters, Crash
    <2>2. ExamTypes'
      BY <1>t, <1>16 DEF ExamTypes, Crash, exam, rows
    <2>3. WalkTypes'
      BY <1>t, <1>16, FreshTypes DEF WalkTypes, Crash, rows, Recovers, BootPcs
    <2> QED BY <2>1, <2>2, <2>3
  <1>17. CASE BootWipes
    <2>1. Counters'
      BY <1>t, <1>17 DEF Counters, BootWipes, counts, history
    <2>2. ExamTypes'
      BY <1>t, <1>17 DEF ExamTypes, BootWipes, rows, history, Papers, Phases
    <2>3. WalkTypes'
      BY <1>t, <1>17 DEF WalkTypes, BootWipes, rows, BootPcs
    <2> QED BY <2>1, <2>2, <2>3
  <1>18. CASE BootRestores
    <2>1. Counters'
      BY <1>t, <1>18 DEF Counters, BootRestores, counts, history
    <2>2. ExamTypes'
      BY <1>t, <1>18 DEF ExamTypes, BootRestores, rows, history, PutsBack
    <2>3. WalkTypes'
      BY <1>t, <1>18 DEF WalkTypes, BootRestores, rows, BootPcs
    <2> QED BY <2>1, <2>2, <2>3
  <1>19. CASE BootForgets
    <2>1. Counters'
      BY <1>t, <1>19 DEF Counters, BootForgets, counts, history
    <2>2. ExamTypes'
      BY <1>t, <1>19 DEF ExamTypes, BootForgets, exam, history
    <2>3. run' \in Reports
      BY <1>t, <1>19, SetsCleanup DEF WalkTypes, BootForgets
    <2>4. WalkTypes'
      BY <1>t, <1>19, <2>3 DEF WalkTypes, BootForgets, BootPcs
    <2> QED BY <2>1, <2>2, <2>4
  <1>20. CASE BootFails
    <2>1. Counters'
      BY <1>t, <1>20 DEF Counters, BootFails, counts, history
    <2>2. ExamTypes'
      BY <1>t, <1>20 DEF ExamTypes, BootFails, exam, rows, history
    <2>3. WalkTypes'
      BY <1>t, <1>20 DEF WalkTypes, BootFails, rows, BootPcs
    <2> QED BY <2>1, <2>2, <2>3
  <1>22. CASE Configures
    <2>1. Counters'
      BY <1>t, <1>22 DEF Counters, Configures, Operates
    <2>2. config' \in Configurations
      <3>1. /\ config = [paper |-> config.paper, settings |-> config.settings]
            /\ config.paper \in Papers /\ config.settings \in Settings \union {"rehearsal"}
        BY <1>t DEF ExamTypes, Configurations
      <3>2. ASSUME NEW s \in Settings, config' = [config EXCEPT !.settings = s]
            PROVE  config' \in Configurations
        <4>1. config' = [paper |-> config.paper, settings |-> s]
          BY <3>1, <3>2
        <4> QED BY <3>1, <4>1 DEF Configurations
      <3>3. ASSUME config' = [config EXCEPT !.paper = "real"]
            PROVE  config' \in Configurations
        <4>1. config' = [paper |-> "real", settings |-> config.settings]
          BY <3>1, <3>3
        <4> QED BY <3>1, <4>1 DEF Configurations, Papers
      <3> QED BY <1>22, <3>2, <3>3 DEF Configures
    <2>3. ExamTypes'
      BY <1>t, <1>22, <2>2 DEF ExamTypes, Configures, Operates, rows
    <2>4. WalkTypes'
      BY <1>t, <1>22 DEF WalkTypes, Configures, Operates, rows, walk
    <2> QED BY <2>1, <2>3, <2>4
  <1>23. CASE Initializes
    <2>1. Counters'
      BY <1>t, <1>23 DEF Counters, Initializes, Operates
    <2>2. ExamTypes'
      BY <1>t, <1>23 DEF ExamTypes, Initializes, Operates, rows, Papers, Phases
    <2>3. WalkTypes'
      BY <1>t, <1>23 DEF WalkTypes, Initializes, Operates, rows, walk
    <2> QED BY <2>1, <2>2, <2>3
  <1>24. CASE Resets
    <2>1. Counters'
      BY <1>t, <1>24 DEF Counters, Resets, Operates
    <2>2. ExamTypes'
      BY <1>t, <1>24 DEF ExamTypes, Resets, Operates, rows, Papers, Phases
    <2>3. WalkTypes'
      BY <1>t, <1>24 DEF WalkTypes, Resets, Operates, rows, walk
    <2> QED BY <2>1, <2>2, <2>3
  <1>25. CASE UNCHANGED vars
    <2>1. Counters'
      BY <1>t, <1>25 DEF Counters, vars, counts, history
    <2>2. ExamTypes'
      BY <1>t, <1>25 DEF ExamTypes, vars, exam, rows, history
    <2>3. WalkTypes'
      BY <1>t, <1>25 DEF WalkTypes, vars, rows, walk
    <2> QED BY <2>1, <2>2, <2>3
  <1>21. CASE BootSaves
    <2>1. record' \in Reports
      <3>1. record # None
        BY <1>21 DEF BootSaves, BootPcs
      <3> QED BY <1>21, <3>1, BootReport
    <2>2. Counters'
      BY <1>t, <1>21 DEF Counters, BootSaves, counts, history
    <2>3. ExamTypes'
      BY <1>t, <1>21 DEF ExamTypes, BootSaves, exam, history
    <2>4. WalkTypes'
      BY <1>t, <1>21, <2>1, BlankIsReport DEF WalkTypes, BootSaves
    <2> QED BY <2>2, <2>3, <2>4
  <1> QED BY <1>1, <1>2, <1>3, <1>4, <1>5, <1>6, <1>7, <1>8, <1>9, <1>10, <1>11, <1>12, <1>13, <1>14,
             <1>15, <1>16, <1>17, <1>18, <1>19, <1>20, <1>21, <1>22, <1>23, <1>24, <1>25
          DEF Next, Orchestrates, Boots

--------------------------------------------------------------------------------
(* The lease, the record and the report, by where the process stands *)

AtWork == {"execute", "walk", "race", "settle", "finish", "broken"}
\* A record that claims the machine, and one that says it is clean.
Open(r) == r # None /\ r.ownsSystemState /\ r.state \notin Terminal
Clean(r) == IsTerminal(r) /\ r.cleanupCompleted

LeaseInv == LeaseIsReturned /\ (pc \in OrchestratorPcs => ~ threw)
RecordInv ==
  /\ pc = "claim" => record = None \/ Clean(record)
  /\ pc \in {"remember"} \union AtWork \union BootPcs => Open(record)
  /\ record # None => record.ownsSystemState
  /\ NoOrphanRun
RunInv ==
  /\ run.ownsSystemState /\ run.state \notin Terminal
  /\ pc \notin {"finish", "broken", "bootSave"} => ~ run.cleanupCompleted
  /\ pc \in {"idle", "claim", "remember"} => run = Blank
  /\ pc = "race" => step.stage = at

ReportInv == LeaseInv /\ RecordInv /\ RunInv

LEMMA Pcs ==
  /\ OrchestratorPcs = {"claim", "remember"} \union AtWork
  /\ AtWork \intersect ({"idle", "claim", "remember"} \union BootPcs) = {}
  /\ BootPcs \intersect ({"idle"} \union OrchestratorPcs) = {}
  BY DEF OrchestratorPcs, BootPcs, AtWork

LEMMA BlankHolds ==
  /\ Blank \in Reports /\ Blank # None /\ Blank.state = "queued" /\ Blank.ownsSystemState
  /\ ~ Blank.cleanupCompleted /\ Blank.overallOutcome = None
  /\ \A s \in StageIds : Blank.stages[s] = "pending"
  <1>1. Blank # None
    BY BlankIsReport, NoneAssumption
  <1> QED BY <1>1, BlankIsReport DEF Blank

\* What a save stores of a report that goes on is a claim still.
LEMMA OpenReports ==
  ASSUME NEW r \in Reports, r.ownsSystemState, r.state \notin Terminal
  PROVE  Open(r)
  BY FieldsOf DEF Open

\* A walk goes on under the same lease.
LEMMA LeaseGoesOn ==
  ASSUME LeaseInv, pc \in OrchestratorPcs, pc' \in OrchestratorPcs, UNCHANGED <<lease, threw>>
  PROVE  LeaseInv'
  BY DEF LeaseInv, LeaseIsReturned

\* A step of execute that saves a report which claims the machine, or fails to.
LEMMA RecordGoesOn ==
  ASSUME RecordInv, pc \in AtWork, pc' \in AtWork, record' = record \/ Open(record')
  PROVE  RecordInv'
  <1>1. Open(record)'
    BY DEF RecordInv, Open
  <1> QED BY <1>1, Pcs DEF RecordInv, NoOrphanRun, Open

LEMMA LeaseStep == TypeOK /\ ReportInv /\ [Next]_vars => LeaseInv'
  <1> SUFFICES ASSUME TypeOK, LeaseInv, RunInv, [Next]_vars
               PROVE  LeaseInv'
    BY DEF ReportInv
  <1>t. lease \in BOOLEAN /\ threw \in BOOLEAN
    BY DEF TypeOK
  <1>1. CASE Start
    BY <1>t, <1>1 DEF Start, MayStart, LeaseInv, LeaseIsReturned, OrchestratorPcs
  <1>2. CASE Rejects
    BY <1>t, <1>2 DEF Rejects, LeaseInv, LeaseIsReturned, OrchestratorPcs
  <1>3. CASE Claims \/ Remembers \/ StopsWalking \/ SkipsCleanup
    <2>1. pc \in OrchestratorPcs /\ pc' \in OrchestratorPcs /\ UNCHANGED <<lease, threw>>
      BY <1>3 DEF Claims, Remembers, StopsWalking, SkipsCleanup, OrchestratorPcs, history
    <2> QED BY <2>1, LeaseGoesOn
  <1>4. CASE Executes
    <2>1. pc \in OrchestratorPcs /\ pc' \in OrchestratorPcs /\ UNCHANGED <<lease, threw>>
      BY <1>4 DEF Executes, Saves, OrchestratorPcs, history
    <2> QED BY <2>1, LeaseGoesOn
  <1>5. CASE WalksOn \/ CleansUp
    <2>1. pc \in OrchestratorPcs /\ pc' \in OrchestratorPcs /\ UNCHANGED <<lease, threw>>
      BY <1>5 DEF WalksOn, CleansUp, Opens, Saves, OrchestratorPcs, history
    <2> QED BY <2>1, LeaseGoesOn
  <1>6. CASE Requests \/ LateRequests
    <2>1. UNCHANGED <<pc, lease, threw>>
      BY <1>6 DEF Requests, LateRequests
    <2> QED BY <2>1 DEF LeaseInv, LeaseIsReturned
  <1>7. CASE Answers \/ TimesOut
    <2>1. pc \in OrchestratorPcs /\ UNCHANGED <<lease, threw>>
      BY <1>7 DEF Answers, TimesOut, OrchestratorPcs, history
    <2>2. pc' \in OrchestratorPcs
      BY <1>7 DEF Answers, TimesOut, OrchestratorPcs, Closes, Saves
    <2> QED BY <2>1, <2>2, LeaseGoesOn
  <1>8. CASE Finishes \/ BreaksOff
    <2>1. pc \in OrchestratorPcs /\ threw' = threw
      BY <1>8 DEF Finishes, BreaksOff, OrchestratorPcs, history
    <2>2. \/ pc' = "idle" /\ lease' = FALSE
          \/ pc' = "broken" /\ lease' = lease
      BY <1>8 DEF Finishes, BreaksOff
    <2> QED BY <1>t, <2>1, <2>2 DEF LeaseInv, LeaseIsReturned, OrchestratorPcs
  <1>9. CASE Crash
    BY <1>9 DEF Crash, Recovers, LeaseInv, LeaseIsReturned, OrchestratorPcs
  <1>10. CASE Boots \/ BootFails
    <2>1. pc \in BootPcs /\ pc' \in BootPcs \union {"idle"} /\ UNCHANGED <<lease, threw>>
      BY <1>10 DEF Boots, BootWipes, BootRestores, BootForgets, BootSaves, BootFails, BootPcs, history
    <2> QED BY <1>t, <2>1, Pcs DEF LeaseInv, LeaseIsReturned
  <1>11. CASE Configures \/ Initializes \/ Resets
    <2>1. UNCHANGED <<pc, lease, threw>>
      BY <1>11 DEF Configures, Initializes, Resets, Operates, walk
    <2> QED BY <2>1 DEF LeaseInv, LeaseIsReturned
  <1>12. CASE UNCHANGED vars
    <2>1. UNCHANGED <<pc, lease, threw>>
      BY <1>12 DEF vars, walk, history
    <2> QED BY <2>1 DEF LeaseInv, LeaseIsReturned
  <1> QED BY <1>1, <1>2, <1>3, <1>4, <1>5, <1>6, <1>7, <1>8, <1>9, <1>10, <1>11, <1>12 DEF Next, Orchestrates

LEMMA RunStep == TypeOK /\ ReportInv /\ [Next]_vars => RunInv'
  <1> SUFFICES ASSUME TypeOK, RunInv, [Next]_vars
               PROVE  RunInv'
    BY DEF ReportInv
  <1>t. run \in Reports /\ step \in Scripts /\ late \subseteq Scripts /\ at \in StageIds
    BY DEF TypeOK
  <1>1. CASE Start \/ Claims \/ Rejects
    <2>1. /\ pc \in {"idle", "claim", "remember"} /\ pc' \in {"idle", "claim", "remember"} /\ run' = run
      BY <1>1 DEF Start, MayStart, Claims, Rejects, walk
    <2> QED BY <2>1, BlankHolds DEF RunInv
  <1>2. CASE Remembers \/ StopsWalking
    <2>1. /\ pc \notin {"finish", "broken", "bootSave"} /\ pc' \in {"execute", "settle"} /\ run' = run
      BY <1>2 DEF Remembers, StopsWalking
    <2> QED BY <2>1 DEF RunInv
  <1>3. CASE Executes
    <2> DEFINE running == [run EXCEPT !.state = "running"]
    <2>1. /\ running \in Reports /\ running.state = "running"
          /\ running.ownsSystemState = run.ownsSystemState
          /\ running.cleanupCompleted = run.cleanupCompleted
      BY <1>t, SetsState
    <2>2. Saves(running, "walk", running) /\ pc = "execute"
      BY <1>3 DEF Executes
    <2> HIDE DEF running
    <2>3. run' = running /\ pc' \in {"walk", "broken"}
      BY <2>1, <2>2, SavesHow
    <2> QED BY <2>1, <2>2, <2>3 DEF RunInv, Terminal
  <1>4. CASE WalksOn
    <2> DEFINE g == BuildStages[NextStage]
    <2>1. g \in StageIds
      BY <1>4, NextStageIs, BuildStagesAre DEF WalksOn, Building
    <2>2. Opens(run, g) /\ pc = "walk"
      BY <1>4 DEF WalksOn
    <2> HIDE DEF g
    <2>3. run' = Marks(run, g, "running") /\ step'.stage = at' /\ pc' \in {"race", "broken"}
      BY <1>t, <2>1, <2>2, OpensHow
    <2>4. "running" \in Statuses
      BY DEF Statuses
    <2>5. /\ run'.state = run.state /\ run'.ownsSystemState = run.ownsSystemState
          /\ run'.cleanupCompleted = run.cleanupCompleted
      BY <1>t, <2>1, <2>3, <2>4, MarksHold
    <2> QED BY <2>2, <2>3, <2>5 DEF RunInv
  <1>5. CASE CleansUp
    <2> DEFINE r == Skipped(run)
    <2>1. /\ r \in Reports /\ r.state = run.state /\ r.ownsSystemState = run.ownsSystemState
          /\ r.cleanupCompleted = run.cleanupCompleted
      BY <1>t, SkippedHolds
    <2>2. Opens(r, "cleanup") /\ pc = "settle" /\ "cleanup" \in StageIds
      BY <1>5 DEF CleansUp, StageIds
    <2> HIDE DEF r
    <2>3. run' = Marks(r, "cleanup", "running") /\ step'.stage = at' /\ pc' \in {"race", "broken"}
      BY <1>t, <2>1, <2>2, OpensHow
    <2>4. "running" \in Statuses
      BY DEF Statuses
    <2>5. /\ run'.state = r.state /\ run'.ownsSystemState = r.ownsSystemState
          /\ run'.cleanupCompleted = r.cleanupCompleted
      BY <2>1, <2>2, <2>3, <2>4, MarksHold
    <2> QED BY <2>1, <2>2, <2>3, <2>5 DEF RunInv
  <1>6. CASE Requests
    <2> PICK good \in BOOLEAN : Sends(step, good) /\ step' = After(step, good)
      BY <1>6 DEF Requests
    <2>1. step'.stage = step.stage /\ UNCHANGED <<pc, run, at>>
      BY <1>t, <1>6, SendsHow, GoesOn DEF Requests
    <2> QED BY <2>1 DEF RunInv
  <1>7. CASE Answers \/ TimesOut
    <2>1. \E status \in {"passed", "failed"}, uploaded \in BOOLEAN : Closes(status, uploaded)
      <3>1. CASE Answers
        <4>1. step.uploaded \in BOOLEAN /\ (IF step.ok THEN "passed" ELSE "failed") \in {"passed", "failed"}
          BY <1>t DEF Scripts
        <4> QED BY <3>1, <4>1 DEF Answers
      <3>2. CASE TimesOut
        BY <3>2 DEF TimesOut
      <3> QED BY <1>7, <3>1, <3>2
    <2> PICK status \in {"passed", "failed"}, uploaded \in BOOLEAN : Closes(status, uploaded)
      BY <2>1
    <2>2. pc = "race"
      BY <1>7 DEF Answers, TimesOut
    <2>3. /\ run'.state = run.state /\ run'.ownsSystemState = run.ownsSystemState
          /\ \/ at = "cleanup" /\ pc' = "finish"
             \/ pc' \in {"walk", "settle"} /\ run'.cleanupCompleted = run.cleanupCompleted
             \/ pc' = "broken"
      BY ClosesHow
    <2>6. ~ run.cleanupCompleted /\ run.ownsSystemState /\ run.state \notin Terminal
      BY <2>2 DEF RunInv
    <2> QED BY <2>3, <2>6 DEF RunInv
  <1>8. CASE LateRequests
    BY <1>8 DEF LateRequests, RunInv
  <1>9. CASE SkipsCleanup
    <2> DEFINE r == Skipped(run)
    <2>1. /\ r \in Reports /\ r.state = run.state /\ r.ownsSystemState = run.ownsSystemState
      BY <1>t, SkippedHolds
    <2>2. /\ run' = [r EXCEPT !.stages["cleanup"] = "skipped", !.cleanupCompleted = TRUE]
          /\ pc' = "finish"
      BY <1>9 DEF SkipsCleanup
    <2> HIDE DEF r
    <2>3. run'.state = run.state /\ run'.ownsSystemState = run.ownsSystemState
      BY <2>1, <2>2, SkipsHold
    <2> QED BY <2>2, <2>3 DEF RunInv
  <1>10. CASE Finishes
    <2>1. \/ pc' = "idle" /\ FreshLocals
          \/ pc' = "broken" /\ run' = run
      BY <1>10 DEF Finishes
    <2> QED BY <2>1, BlankHolds DEF RunInv, FreshLocals, Terminal
  <1>11. CASE BreaksOff \/ Crash
    <2>1. FreshLocals /\ pc' \in {"idle", "boot"}
      BY <1>11 DEF BreaksOff, Crash, Recovers
    <2> QED BY <2>1, BlankHolds DEF RunInv, FreshLocals, Terminal
  <1>12. CASE BootWipes \/ BootRestores \/ BootFails
    <2>1. /\ pc \in {"boot", "bootRestore", "bootForget"}
          /\ pc' \in {"bootRestore", "bootForget", "bootSave"} /\ run' = run
      BY <1>12 DEF BootWipes, BootRestores, BootFails
    <2> QED BY <2>1 DEF RunInv
  <1>13. CASE BootForgets
    <2>1. run' = [run EXCEPT !.cleanupCompleted = TRUE] /\ pc' = "bootSave"
      BY <1>13 DEF BootForgets
    <2>2. run'.state = run.state /\ run'.ownsSystemState = run.ownsSystemState
      BY <1>t, <2>1, SetsCleanup
    <2> QED BY <2>1, <2>2 DEF RunInv
  <1>14. CASE BootSaves
    <2>1. run' = Blank /\ pc' = "idle"
      BY <1>14 DEF BootSaves
    <2> QED BY <2>1, BlankHolds DEF RunInv, Terminal
  <1>15. CASE Configures \/ Initializes \/ Resets
    <2>1. UNCHANGED <<pc, run, step, at>>
      BY <1>15 DEF Configures, Initializes, Resets, Operates, walk
    <2> QED BY <2>1 DEF RunInv
  <1>16. CASE UNCHANGED vars
    <2>1. UNCHANGED <<pc, run, step, at>>
      BY <1>16 DEF vars, walk
    <2> QED BY <2>1 DEF RunInv
  <1> QED BY <1>1, <1>2, <1>3, <1>4, <1>5, <1>6, <1>7, <1>8, <1>9, <1>10, <1>11, <1>12, <1>13, <1>14,
             <1>15, <1>16
          DEF Next, Orchestrates, Boots

LEMMA RecordStep == TypeOK /\ ReportInv /\ [Next]_vars => RecordInv'
  <1> SUFFICES ASSUME TypeOK, RecordInv, RunInv, [Next]_vars
               PROVE  RecordInv'
    BY DEF ReportInv
  <1>t. /\ run \in Reports /\ record \in Reports \union {None} /\ None \notin Reports
        /\ step \in Scripts /\ at \in StageIds
    BY NoneAssumption DEF TypeOK
  <1>r. run.ownsSystemState /\ run.state \notin Terminal
    BY DEF RunInv
  <1>1. CASE Start
    <2>1. /\ pc' = "claim" /\ record' = record
          /\ record # None => IsTerminal(record) /\ record.cleanupCompleted
      BY <1>1 DEF Start, MayStart, rows
    <2> QED BY <2>1, Pcs DEF RecordInv, NoOrphanRun, Clean, IsTerminal
  <1>2. CASE Rejects
    <2>1. pc' = "idle" /\ record' = record /\ orphaned' = (orphaned \/ pc = "remember") /\ pc \in {"claim", "remember"}
      BY <1>2 DEF Rejects, rows
    <2> QED BY <2>1, Pcs DEF RecordInv, NoOrphanRun, Clean, IsTerminal
  <1>3. CASE Claims
    <2>1. pc' = "remember" /\ record' = run
      BY <1>3 DEF Claims
    <2>2. Open(record)'
      BY <1>t, <1>r, <2>1, OpenReports DEF Open
    <2> QED BY <2>1, <2>2, Pcs DEF RecordInv, NoOrphanRun, Open
  <1>4. CASE Remembers
    <2>1. pc' = "execute" /\ record' = record /\ pc = "remember"
      BY <1>4 DEF Remembers
    <2> QED BY <2>1, Pcs DEF RecordInv, NoOrphanRun, Open
  <1>5. CASE Executes
    <2> DEFINE running == [run EXCEPT !.state = "running"]
    <2>1. /\ running \in Reports /\ running.state = "running"
          /\ running.ownsSystemState = run.ownsSystemState
      BY <1>t, SetsState
    <2>2. Saves(running, "walk", running) /\ pc = "execute"
      BY <1>5 DEF Executes
    <2> HIDE DEF running
    <2>3. Open(running)
      BY <1>r, <2>1, OpenReports DEF Terminal
    <2>4. pc' \in {"walk", "broken"} /\ (record' = record \/ record' = running)
      BY <2>1, <2>2, SavesHow
    <2> QED BY <2>2, <2>3, <2>4, RecordGoesOn DEF AtWork
  <1>6. CASE WalksOn
    <2> DEFINE g == BuildStages[NextStage]
    <2>1. g \in StageIds /\ "running" \in Statuses
      BY <1>6, NextStageIs, BuildStagesAre DEF WalksOn, Building, Statuses
    <2>2. Opens(run, g) /\ pc = "walk"
      BY <1>6 DEF WalksOn
    <2> HIDE DEF g
    <2>3. Open(Marks(run, g, "running"))
      BY <1>t, <1>r, <2>1, MarksHold, OpenReports
    <2>4. (record' = record \/ record' = Marks(run, g, "running")) /\ pc' \in {"race", "broken"}
      BY <1>t, <2>1, <2>2, OpensHow
    <2> QED BY <2>2, <2>3, <2>4, RecordGoesOn DEF AtWork
  <1>7. CASE CleansUp
    <2> DEFINE r == Skipped(run)
    <2>1. r \in Reports /\ r.state = run.state /\ r.ownsSystemState = run.ownsSystemState
      BY <1>t, SkippedHolds
    <2>2. Opens(r, "cleanup") /\ pc = "settle" /\ "cleanup" \in StageIds /\ "running" \in Statuses
      BY <1>7 DEF CleansUp, StageIds, Statuses
    <2> HIDE DEF r
    <2>3. Open(Marks(r, "cleanup", "running"))
      BY <1>r, <2>1, <2>2, MarksHold, OpenReports
    <2>4. (record' = record \/ record' = Marks(r, "cleanup", "running")) /\ pc' \in {"race", "broken"}
      BY <2>1, <2>2, OpensHow
    <2> QED BY <2>2, <2>3, <2>4, RecordGoesOn DEF AtWork
  <1>8. CASE Answers \/ TimesOut
    <2>1. \E status \in {"passed", "failed"}, uploaded \in BOOLEAN : Closes(status, uploaded)
      <3>1. CASE Answers
        <4>1. step.uploaded \in BOOLEAN /\ (IF step.ok THEN "passed" ELSE "failed") \in {"passed", "failed"}
          BY <1>t DEF Scripts
        <4> QED BY <3>1, <4>1 DEF Answers
      <3>2. CASE TimesOut
        BY <3>2 DEF TimesOut
      <3> QED BY <1>8, <3>1, <3>2
    <2> PICK status \in {"passed", "failed"}, uploaded \in BOOLEAN : Closes(status, uploaded)
      BY <2>1
    <2>2. Open(Marks(run, at, status))
      <3>1. status \in Statuses
        BY DEF Statuses
      <3> QED BY <1>t, <1>r, <3>1, MarksHold, OpenReports
    <2>3. /\ record' = record \/ record' = Marks(run, at, status)
          /\ pc' \in {"finish", "walk", "settle", "broken"}
      BY ClosesHow
    <2>4. pc = "race" /\ pc' \in AtWork
      BY <1>8, <2>3 DEF Answers, TimesOut, AtWork
    <2>5. pc \in AtWork
      BY <2>4 DEF AtWork
    <2> QED BY <2>2, <2>3, <2>4, <2>5, RecordGoesOn
  <1>9. CASE StopsWalking \/ SkipsCleanup
    <2>1. record' = record /\ pc \in AtWork /\ pc' \in AtWork
      BY <1>9 DEF StopsWalking, SkipsCleanup, rows, AtWork
    <2> QED BY <2>1, RecordGoesOn
  <1>10. CASE Requests \/ LateRequests
    <2>1. UNCHANGED <<pc, record, orphaned>>
      BY <1>10 DEF Requests, LateRequests
    <2> QED BY <2>1 DEF RecordInv, NoOrphanRun, Clean, Open, IsTerminal
  <1>11. CASE Finishes
    <2>1. CASE pc' = "idle"
      <3>1. record' \in Reports /\ record'.state \in Terminal /\ record'.ownsSystemState
        BY <1>t, <1>r, <1>11, <2>1, FinishHolds DEF Terminal
      <3>2. IsTerminal(record)'
        BY <1>t, <3>1 DEF IsTerminal
      <3> QED BY <2>1, <3>1, <3>2, Pcs DEF RecordInv, NoOrphanRun
    <2>2. CASE pc' # "idle"
      <3>1. record' = record /\ pc \in AtWork /\ pc' \in AtWork
        BY <1>11, <2>2 DEF Finishes, AtWork
      <3> QED BY <3>1, RecordGoesOn
    <2> QED BY <2>1, <2>2
  <1>12. CASE BreaksOff
    <2>1. pc' = "idle" /\ (record' = BrokenReport \/ (orphaned' = TRUE /\ record' = record))
      BY <1>12 DEF BreaksOff
    <2>2. BrokenReport \in Reports /\ BrokenReport.state \in Terminal /\ BrokenReport.ownsSystemState
      BY <1>t, <1>r, BrokenHolds DEF Terminal
    <2>3. record' = BrokenReport => IsTerminal(record)' /\ record'.ownsSystemState
      BY <1>t, <2>2 DEF IsTerminal
    <2> QED BY <2>1, <2>3, Pcs DEF RecordInv, NoOrphanRun
  <1>13. CASE Crash
    <2>1. pc' = Recovers /\ record' = record
      BY <1>13 DEF Crash, rows
    <2>2. CASE record = None \/ IsTerminal(record)
      <3>1. pc' = "idle"
        BY <2>1, <2>2 DEF Recovers
      <3> QED BY <2>1, <2>2, <3>1, Pcs DEF RecordInv, NoOrphanRun, IsTerminal
    <2>3. CASE record # None /\ ~ IsTerminal(record)
      <3>1. pc' = "boot"
        BY <2>1, <2>3 DEF Recovers
      <3>2. Open(record)
        BY <2>3 DEF IsTerminal, Open, RecordInv
      <3> QED BY <2>1, <3>1, <3>2, Pcs DEF RecordInv, NoOrphanRun, Open
    <2> QED BY <2>2, <2>3
  <1>14. CASE BootWipes \/ BootRestores \/ BootForgets \/ BootFails
    <2>1. pc \in BootPcs /\ pc' \in BootPcs /\ record' = record
      BY <1>14 DEF BootWipes, BootRestores, BootForgets, BootFails, BootPcs, rows
    <2> QED BY <2>1, Pcs DEF RecordInv, NoOrphanRun, Open
  <1>15. CASE BootSaves
    <2>1. pc = "bootSave" /\ pc' = "idle"
      BY <1>15 DEF BootSaves
    <2>2. record # None
      BY <2>1 DEF RecordInv, BootPcs, Open
    <2>3. IsTerminal(record)' /\ record'.ownsSystemState
      <3>1. record' \in Reports /\ record'.state = "interrupted" /\ record'.ownsSystemState = record.ownsSystemState
        BY <1>15, <2>2, BootReport
      <3> QED BY <1>t, <2>2, <3>1 DEF IsTerminal, Terminal, RecordInv
    <2> QED BY <2>1, <2>3, Pcs DEF RecordInv, NoOrphanRun
  <1>16. CASE Configures \/ Initializes \/ Resets
    <2>1. UNCHANGED <<pc, record, orphaned>>
      BY <1>16 DEF Configures, Initializes, Resets, Operates, walk, rows
    <2> QED BY <2>1 DEF RecordInv, NoOrphanRun, Clean, Open, IsTerminal
  <1>17. CASE UNCHANGED vars
    <2>1. UNCHANGED <<pc, record, orphaned>>
      BY <1>17 DEF vars, walk, rows, history
    <2> QED BY <2>1 DEF RecordInv, NoOrphanRun, Clean, Open, IsTerminal
  <1> QED BY <1>1, <1>2, <1>3, <1>4, <1>5, <1>6, <1>7, <1>8, <1>9, <1>10, <1>11, <1>12, <1>13, <1>14,
             <1>15, <1>16, <1>17
          DEF Next, Orchestrates, Boots

--------------------------------------------------------------------------------
(* Late scripts *)

LatePaper == \E s \in late : s.stage = "paper"
LateCleanup == \E s \in late : s.stage = "cleanup"
Refused == record # None /\ ~ Clean(record)

\* A script that can still store the paper, or put it back, outlives its stage only where nobody can
\* start a rehearsal, unless the rehearsal has lost track.
LateInv ==
  /\ LatePaper /\ ~ blind =>
       \/ pc = "settle" /\ ~ mutated
       \/ pc = "broken" /\ ~ run.cleanupCompleted
       \/ pc = "idle" /\ Refused
  /\ LateCleanup =>
       \/ pc \in {"finish", "broken"} /\ ~ run.cleanupCompleted
       \/ pc = "idle" /\ Refused
  /\ ~ blind => ~ (LatePaper /\ LateCleanup)
  /\ pc \in BootPcs => late = {}
  /\ \A s \in late : ~ Answered(s)

LEMMA LateStays ==
  ASSUME LateInv, UNCHANGED <<late, pc, record, run, mutated, blind>>
  PROVE  LateInv'
  BY DEF LateInv, LatePaper, LateCleanup, Refused, Clean, IsTerminal

\* Where neither can be late, it takes a step that lets one be.
LEMMA NoneLate ==
  ASSUME LateInv, late' = late, blind' = blind, pc' \notin BootPcs,
         ~ (pc = "settle" /\ ~ mutated), pc \notin {"idle", "finish", "broken"}
  PROVE  LateInv'
  <1>1. (LatePaper => blind) /\ ~ LateCleanup
    BY DEF LateInv
  <1>2. (LatePaper' => blind') /\ ~ LateCleanup'
    BY <1>1 DEF LatePaper, LateCleanup
  <1> QED BY <1>2 DEF LateInv

LEMMA LateStep == TypeOK /\ ReportInv /\ LateInv /\ [Next]_vars => LateInv'
  <1> SUFFICES ASSUME TypeOK, RecordInv, RunInv, LateInv, [Next]_vars
               PROVE  LateInv'
    BY DEF ReportInv
  <1>t. /\ run \in Reports /\ record \in Reports \union {None} /\ None \notin Reports
        /\ step \in Scripts /\ at \in StageIds /\ late \subseteq Scripts /\ blind \in BOOLEAN
    BY NoneAssumption DEF TypeOK
  <1>1. CASE Start
    <2>1. /\ pc = "idle" /\ ~ Refused /\ pc' = "claim" /\ late' = late /\ (blind => blind')
      BY <1>1 DEF Start, MayStart, Refused, Clean
    <2>2. (LatePaper => blind) /\ ~ LateCleanup
      BY <2>1 DEF LateInv
    <2>3. (LatePaper' => blind') /\ ~ LateCleanup'
      BY <2>1, <2>2 DEF LatePaper, LateCleanup
    <2> QED BY <2>1, <2>3, Pcs DEF LateInv
  <1>2. CASE Rejects \/ Claims \/ Remembers \/ StopsWalking
    <2>1. /\ late' = late /\ blind' = blind /\ pc' \in {"idle", "remember", "execute", "settle"}
          /\ pc \in {"claim", "remember", "walk"}
      BY <1>2 DEF Rejects, Claims, Remembers, StopsWalking, history
    <2> QED BY <2>1, NoneLate DEF BootPcs
  <1>3. CASE Executes \/ WalksOn
    <2>1. /\ late' = late /\ blind' = blind /\ pc' \in {"walk", "race", "broken"} /\ pc \in {"execute", "walk"}
      BY <1>3 DEF Executes, WalksOn, Opens, Saves, history
    <2> QED BY <2>1, NoneLate DEF BootPcs
  <1>4. CASE CleansUp
    <2>1. late' = late /\ blind' = blind /\ pc' \in {"race", "broken"} /\ pc = "settle" /\ mutated
      BY <1>4 DEF CleansUp, Opens, Saves, history
    <2> QED BY <2>1, NoneLate DEF BootPcs
  <1>5. CASE Answers
    <2>1. late' = late /\ blind' = blind /\ pc' \in {"finish", "walk", "settle", "broken"} /\ pc = "race"
      BY <1>5 DEF Answers, Closes, Saves, history
    <2> QED BY <2>1, NoneLate DEF BootPcs
  <1>6. CASE TimesOut
    <2>1. /\ late' = late \union Unheard(step) /\ blind' = blind /\ pc = "race"
          /\ Closes("failed", FALSE)
      BY <1>6 DEF TimesOut, history
    <2>2. /\ at = "paper" => mutated' = FALSE
          /\ \/ /\ at = "cleanup" => pc' = "finish" /\ ~ run'.cleanupCompleted
                /\ at # "cleanup" => pc' = "settle"
             \/ pc' = "broken" /\ run'.cleanupCompleted = run.cleanupCompleted
      BY <2>1, ClosesHow
    <2>3. (LatePaper => blind) /\ ~ LateCleanup
      BY <2>1 DEF LateInv
    <2>4. \A u \in late' \ late : u.stage = at /\ ~ Answered(u)
      BY <1>t, <2>1, UnheardGoesOn DEF RunInv
    <2>5. (LatePaper' => blind' \/ at = "paper") /\ (LateCleanup' => at = "cleanup")
      BY <2>1, <2>3, <2>4 DEF LatePaper, LateCleanup
    <2>6. \A u \in late' : ~ Answered(u)
      BY <2>1, <2>4 DEF LateInv
    <2>7. ~ run.cleanupCompleted
      BY <2>1 DEF RunInv
    <2>8. pc' \notin BootPcs
      BY <2>2 DEF BootPcs
    <2> QED BY <2>2, <2>5, <2>6, <2>7, <2>8 DEF LateInv
  <1>7. CASE Requests
    <2>1. UNCHANGED <<late, pc, record, run, mutated, blind>>
      BY <1>7 DEF Requests
    <2> QED BY <2>1, LateStays
  <1>8. CASE LateRequests
    <2> PICK s \in late, good \in BOOLEAN : Sends(s, good) /\ late' = (late \ {s}) \union Unheard(After(s, good))
      BY <1>8 DEF LateRequests
    <2>1. UNCHANGED <<pc, record, run, mutated, blind>>
      BY <1>8 DEF LateRequests
    <2>2. s \in Scripts /\ ~ Answered(s)
      BY <1>t DEF LateInv
    <2>3. After(s, good) \in Scripts /\ After(s, good).stage = s.stage
      BY <2>2, GoesOn
    <2>4. \A u \in late' : (u.stage = s.stage /\ ~ Answered(u)) \/ u \in late
      BY <2>3, UnheardGoesOn
    <2>5. (LatePaper' => LatePaper) /\ (LateCleanup' => LateCleanup)
      BY <2>4 DEF LatePaper, LateCleanup
    <2>6. \A u \in late' : ~ Answered(u)
      BY <2>4 DEF LateInv
    <2>7. pc \notin BootPcs
      BY DEF LateInv
    <2> QED BY <2>1, <2>5, <2>6, <2>7 DEF LateInv, Refused, Clean, IsTerminal
  <1>9. CASE SkipsCleanup
    <2>1. /\ late' = late /\ pc = "settle" /\ pc' = "finish"
          /\ blind' = (blind \/ config.paper = "rehearsal" \/ LatePaper)
      BY <1>9 DEF SkipsCleanup, LatePaper
    <2>2. (LatePaper => blind') /\ ~ LateCleanup
      BY <1>t, <2>1 DEF LateInv
    <2>3. (LatePaper' => blind') /\ ~ LateCleanup'
      BY <2>1, <2>2 DEF LatePaper, LateCleanup
    <2> QED BY <2>1, <2>3 DEF LateInv, BootPcs
  <1>10. CASE Finishes
    <2>1. late' = late /\ blind' = blind /\ pc = "finish" /\ pc' \in {"idle", "broken"}
      BY <1>10 DEF Finishes, history
    <2>2. (LatePaper => blind) /\ (LateCleanup => ~ run.cleanupCompleted)
      BY <2>1 DEF LateInv
    <2>3. (LatePaper' => blind') /\ (LateCleanup' => ~ run.cleanupCompleted)
      BY <2>1, <2>2 DEF LatePaper, LateCleanup
    <2>4. CASE pc' = "idle"
      <3>1. record' \in Reports /\ record'.cleanupCompleted = run.cleanupCompleted
        BY <1>t, <1>10, <2>4, FinishHolds
      <3>2. LateCleanup' => Refused'
        BY <1>t, <2>3, <3>1 DEF Refused, Clean
      <3> QED BY <2>1, <2>3, <2>4, <3>2 DEF LateInv, BootPcs
    <2>5. CASE pc' = "broken"
      <3>1. run' = run
        BY <1>10, <2>5 DEF Finishes
      <3> QED BY <2>1, <2>3, <2>5, <3>1 DEF LateInv, BootPcs
    <2> QED BY <2>1, <2>4, <2>5
  <1>11. CASE BreaksOff
    <2>1. late' = late /\ blind' = blind /\ pc = "broken" /\ pc' = "idle" /\ (record' = BrokenReport \/ record' = record)
      BY <1>11 DEF BreaksOff
    <2>2. LateCleanup \/ (LatePaper /\ ~ blind) => ~ run.cleanupCompleted
      BY <2>1 DEF LateInv
    <2>3. LateCleanup' \/ (LatePaper' /\ ~ blind') => ~ run.cleanupCompleted
      BY <2>1, <2>2 DEF LatePaper, LateCleanup
    <2>4. ~ run.cleanupCompleted => Refused'
      <3>1. Open(record)
        BY <2>1, Pcs DEF RecordInv, AtWork
      <3>2. record' = record => Refused'
        BY <3>1 DEF Refused, Clean, Open, IsTerminal
      <3>3. record' = BrokenReport /\ ~ run.cleanupCompleted => Refused'
        BY <1>t, BrokenHolds DEF Refused, Clean
      <3> QED BY <2>1, <3>2, <3>3
    <2>5. ~ blind' => ~ (LatePaper' /\ LateCleanup')
      BY <2>1 DEF LateInv, LatePaper, LateCleanup
    <2> QED BY <2>1, <2>3, <2>4, <2>5 DEF LateInv, BootPcs
  <1>12. CASE Crash
    BY <1>12 DEF Crash, LateInv, LatePaper, LateCleanup
  <1>13. CASE Boots \/ BootFails
    <2>1. pc \in BootPcs /\ late' = late
      BY <1>13 DEF Boots, BootFails, BootWipes, BootRestores, BootForgets, BootSaves, BootPcs
    <2>2. late' = {}
      BY <2>1 DEF LateInv
    <2> QED BY <2>2 DEF LateInv, LatePaper, LateCleanup
  <1>14. CASE Configures \/ Initializes \/ Resets
    <2>1. UNCHANGED <<late, pc, record, run, mutated, blind>>
      BY <1>14 DEF Configures, Initializes, Resets, Operates, walk, rows
    <2> QED BY <2>1, LateStays
  <1>15. CASE UNCHANGED vars
    <2>1. UNCHANGED <<late, pc, record, run, mutated, blind>>
      BY <1>15 DEF vars, walk, rows, history
    <2> QED BY <2>1, LateStays
  <1> QED BY <1>1, <1>2, <1>3, <1>4, <1>5, <1>6, <1>7, <1>8, <1>9, <1>10, <1>11, <1>12, <1>13, <1>14, <1>15
          DEF Next, Orchestrates

--------------------------------------------------------------------------------
(* The machine that is claimed, and an exam that is not the rehearsal's *)

ClaimInv == pc = "claim" /\ ~ blind => ~ Residue /\ prior = None

NoRealExam == config.paper # "real" /\ users # "real"
\* The recovery that an orphaned record calls for may find anything.
RealInv ==
  /\ prior # None => prior.paper # "real"
  /\ pc \in OrchestratorPcs \/ (pc \in BootPcs /\ ~ orphaned) => NoRealExam

\* Who leaves the configuration and the roster alone.
LEMMA ExamStays ==
  ASSUME UNCHANGED <<config, users>>
  PROVE  Residue' = Residue /\ NoRealExam' = NoRealExam
  BY DEF Residue, NoRealExam

LEMMA ClaimStep == TypeOK /\ LateInv /\ ClaimInv /\ [Next]_vars => ClaimInv'
  <1> SUFFICES ASSUME TypeOK, LateInv, ClaimInv, [Next]_vars, pc' = "claim", ~ blind'
               PROVE  ~ Residue' /\ prior' = None
    BY DEF ClaimInv
  <1>t. late \subseteq Scripts /\ blind \in BOOLEAN
    BY DEF TypeOK
  <1>1. CASE Start
    BY <1>1 DEF Start, MayStart, NothingToLose, Residue, exam, rows
  <1>2. CASE LateRequests
    <2> PICK s \in late, good \in BOOLEAN : Sends(s, good) /\ late' = (late \ {s}) \union Unheard(After(s, good))
      BY <1>2 DEF LateRequests
    <2>1. pc = "claim" /\ ~ blind
      BY <1>2 DEF LateRequests
    <2>2. s.stage \notin {"paper", "cleanup"} /\ s \in Scripts
      BY <1>t, <2>1 DEF LateInv, LatePaper, LateCleanup
    <2>3. UNCHANGED <<config, users, prior>>
      BY <2>2, Touches
    <2> QED BY <2>1, <2>3, ExamStays DEF ClaimInv
  <1>3. CASE Configures \/ Initializes \/ Resets
    BY <1>3 DEF Configures, Initializes, Resets, Operates, walk
  <1>4. CASE Orchestrates
    <2>1. pc' # "claim"
      BY <1>4 DEF Orchestrates, Claims, Remembers, Executes, WalksOn, StopsWalking, Answers, TimesOut, CleansUp,
                  SkipsCleanup, Finishes, BreaksOff, Opens, Closes, Saves
    <2> QED BY <2>1
  <1>5. CASE Requests \/ Crash \/ Boots \/ BootFails \/ Rejects
    <2>1. CASE Requests
      BY <2>1 DEF Requests
    <2>2. CASE Crash \/ Boots \/ BootFails \/ Rejects
      BY <2>2 DEF Crash, Recovers, Boots, BootWipes, BootRestores, BootForgets, BootSaves, BootFails, Rejects
    <2> QED BY <1>5, <2>1, <2>2
  <1>6. CASE UNCHANGED vars
    <2>1. UNCHANGED <<pc, blind, config, users, prior>>
      BY <1>6 DEF vars, walk, exam, rows, history
    <2> QED BY <2>1, ExamStays DEF ClaimInv
  <1> QED BY <1>1, <1>2, <1>3, <1>4, <1>5, <1>6 DEF Next

\* No script, in time or late, brings a real exam.
LEMMA ScriptsBringNone ==
  ASSUME TypeOK, NEW s \in Scripts, NEW good \in BOOLEAN, Sends(s, good), prior # None => prior.paper # "real"
  PROVE  /\ NoRealExam => NoRealExam'
         /\ prior' = None \/ prior' = prior
  <1>1. /\ config' \in {config, RehearsalPaper, PutsBack}
        /\ users' \in {users, "none", config.paper}
        /\ prior' \in {prior, None}
    <2>1. CASE s.stage = "paper"
      BY <2>1, SendsHow, AskedByPaper, Touches
    <2>2. CASE s.stage = "cleanup"
      <3>1. CASE s.next \in {1, 4, 5}
        BY <2>2, <3>1, Touches
      <3>2. CASE s.next \notin {1, 4, 5}
        BY <2>2, <3>2, Touches
      <3> QED BY <3>1, <3>2
    <2>3. CASE s.stage \notin {"paper", "cleanup"}
      BY <2>3, Touches
    <2> QED BY <2>1, <2>2, <2>3
  <1>2. NoRealExam => PutsBack.paper # "real" /\ RehearsalPaper.paper # "real"
    BY DEF NoRealExam, PutsBack, RehearsalPaper
  <1> QED BY <1>1, <1>2 DEF NoRealExam

LEMMA RealStep == TypeOK /\ ReportInv /\ LateInv /\ RealInv /\ [Next]_vars => RealInv'
  <1> SUFFICES ASSUME TypeOK, RecordInv, LateInv, RealInv, [Next]_vars
               PROVE  RealInv'
    BY DEF ReportInv
  <1>t. late \subseteq Scripts /\ step \in Scripts /\ orphaned \in BOOLEAN
    BY DEF TypeOK
  <1>1. CASE Start
    <2>1. pc' = "claim" /\ UNCHANGED <<config, users, prior>> /\ NothingToLose
      BY <1>1 DEF Start, MayStart, exam, rows
    <2> QED BY <2>1, Pcs DEF RealInv, NoRealExam, NothingToLose
  <1>2. CASE Rejects
    <2>1. pc' = "idle" /\ UNCHANGED <<config, users, prior>>
      BY <1>2 DEF Rejects, exam, rows
    <2> QED BY <2>1, Pcs DEF RealInv
  <1>3. CASE Remembers
    <2>1. prior' = config /\ UNCHANGED <<config, users>> /\ pc \in OrchestratorPcs
      BY <1>3 DEF Remembers, exam, OrchestratorPcs
    <2>2. NoRealExam
      BY <2>1 DEF RealInv
    <2> QED BY <2>1, <2>2 DEF RealInv, NoRealExam
  <1>4. CASE Claims \/ Executes \/ WalksOn \/ StopsWalking \/ Answers \/ TimesOut
    <2>1. UNCHANGED <<config, users, prior>> /\ pc \in OrchestratorPcs
      BY <1>4 DEF Claims, Executes, WalksOn, StopsWalking, Answers, TimesOut, OrchestratorPcs, exam, rows
    <2> QED BY <2>1, ExamStays DEF RealInv
  <1>5. CASE CleansUp \/ SkipsCleanup \/ Finishes \/ BreaksOff
    <2>1. UNCHANGED <<config, users, prior>> /\ pc \in OrchestratorPcs
      BY <1>5 DEF CleansUp, SkipsCleanup, Finishes, BreaksOff, OrchestratorPcs, exam, rows
    <2> QED BY <2>1, ExamStays DEF RealInv
  <1>6. CASE Requests
    <2> PICK good \in BOOLEAN : Sends(step, good)
      BY <1>6 DEF Requests
    <2>1. UNCHANGED <<pc, orphaned>>
      BY <1>6 DEF Requests
    <2>2. (NoRealExam => NoRealExam') /\ (prior' = None \/ prior' = prior)
      BY <1>t, ScriptsBringNone DEF RealInv
    <2> QED BY <2>1, <2>2 DEF RealInv
  <1>7. CASE LateRequests
    <2> PICK s \in late, good \in BOOLEAN : Sends(s, good)
      BY <1>7 DEF LateRequests
    <2>1. UNCHANGED <<pc, orphaned>>
      BY <1>7 DEF LateRequests
    <2>2. (NoRealExam => NoRealExam') /\ (prior' = None \/ prior' = prior)
      BY <1>t, ScriptsBringNone DEF RealInv
    <2> QED BY <2>1, <2>2 DEF RealInv
  <1>8. CASE Crash
    <2>1. UNCHANGED <<config, users, prior, orphaned>> /\ pc' = Recovers
      BY <1>8 DEF Crash, exam, rows
    <2>2. CASE pc' = "boot" /\ ~ orphaned
      <3>1. record # None /\ ~ IsTerminal(record)
        BY <2>1, <2>2 DEF Recovers
      <3>2. pc # "idle"
        BY <2>2, <3>1 DEF RecordInv, NoOrphanRun
      <3>3. pc \in OrchestratorPcs \union BootPcs
        BY <3>2 DEF TypeOK
      <3>4. NoRealExam
        BY <2>2, <3>3 DEF RealInv
      <3> QED BY <2>1, <3>4, ExamStays DEF RealInv
    <2>3. CASE ~ (pc' = "boot" /\ ~ orphaned)
      <3>1. pc' \in {"idle", "boot"}
        BY <2>1 DEF Recovers
      <3> QED BY <2>1, <2>3, <3>1, Pcs DEF RealInv, OrchestratorPcs
    <2> QED BY <2>2, <2>3
  <1>9. CASE BootWipes
    <2>1. /\ users' = "none" /\ UNCHANGED <<config, prior, orphaned>> /\ pc \in BootPcs /\ pc' \in BootPcs
      BY <1>9 DEF BootWipes, rows, history, BootPcs
    <2> QED BY <2>1, Pcs DEF RealInv, NoRealExam
  <1>10. CASE BootRestores
    <2>1. config' = PutsBack /\ UNCHANGED <<users, prior, orphaned>> /\ pc \in BootPcs /\ pc' \in BootPcs
      BY <1>10 DEF BootRestores, rows, history, BootPcs
    <2> QED BY <2>1, Pcs DEF RealInv, NoRealExam, PutsBack
  <1>11. CASE BootForgets \/ BootFails \/ BootSaves
    <2>1. /\ UNCHANGED <<config, users, orphaned>> /\ (prior' = prior \/ prior' = None)
          /\ pc \in BootPcs /\ pc' \in BootPcs \union {"idle"}
      BY <1>11 DEF BootForgets, BootFails, BootSaves, exam, rows, history, BootPcs
    <2> QED BY <2>1, Pcs, ExamStays DEF RealInv
  <1>12. CASE Configures \/ Initializes \/ Resets
    <2>1. pc = "idle" /\ pc' = "idle" /\ prior' = prior
      BY <1>12 DEF Configures, Initializes, Resets, Operates, walk, rows
    <2> QED BY <2>1, Pcs DEF RealInv
  <1>13. CASE UNCHANGED vars
    <2>1. UNCHANGED <<pc, orphaned, config, users, prior>>
      BY <1>13 DEF vars, walk, exam, rows, history
    <2> QED BY <2>1, ExamStays DEF RealInv
  <1> QED BY <1>1, <1>2, <1>3, <1>4, <1>5, <1>6, <1>7, <1>8, <1>9, <1>10, <1>11, <1>12, <1>13
          DEF Next, Orchestrates, Boots

CoreInv == TypeOK /\ ReportInv /\ LateInv /\ ClaimInv /\ RealInv

LEMMA CoreInit == Init => CoreInv
  <1> SUFFICES ASSUME Init PROVE CoreInv
    OBVIOUS
  <1> USE BoundsAssumption, SettingsAssumption
  <1>1. Counters
    <2>1. runs = 0 /\ changes = 0 /\ faults = 0 /\ blind = FALSE /\ threw = FALSE /\ orphaned = FALSE
      BY DEF Init
    <2>2. {blind, threw, orphaned} \subseteq BOOLEAN
      BY <2>1
    <2> QED BY <2>1, <2>2 DEF Counters
  <1>2. ExamTypes
    BY DEF Init, ExamTypes, Configurations, Papers, Phases
  <1>3. WalkTypes
    <2>1. NoScript \in Scripts /\ "paper" \in StageIds
      BY DEF NoScript, Scripts, StageIds
    <2>2. /\ record = None /\ pc = "idle" /\ lease = FALSE /\ run = Blank /\ at = "paper" /\ step = NoScript
          /\ late = {} /\ mutated = FALSE /\ expired = FALSE
      BY DEF Init
    <2> QED BY <2>1, <2>2, BlankIsReport DEF WalkTypes
  <1>4. LeaseInv /\ RecordInv
    BY Pcs DEF Init, LeaseInv, LeaseIsReturned, RecordInv, NoOrphanRun
  <1>5. RunInv
    BY BlankHolds DEF Init, RunInv, Terminal
  <1>6. LateInv
    BY DEF Init, LateInv, LatePaper, LateCleanup
  <1>7. ClaimInv /\ RealInv
    BY Pcs DEF Init, ClaimInv, RealInv
  <1> QED BY <1>1, <1>2, <1>3, <1>4, <1>5, <1>6, <1>7, TypeParts DEF CoreInv, ReportInv

LEMMA CoreStep == CoreInv /\ [Next]_vars => CoreInv'
  <1> SUFFICES ASSUME TypeOK, ReportInv, LateInv, ClaimInv, RealInv, [Next]_vars
               PROVE  CoreInv'
    BY DEF CoreInv
  <1>1. pc \in BootPcs => record # None
    BY DEF ReportInv, RecordInv, Open
  <1>2. TypeOK'
    BY <1>1, TypeStep
  <1>3. ReportInv'
    BY LeaseStep, RecordStep, RunStep DEF ReportInv
  <1> QED BY <1>2, <1>3, LateStep, ClaimStep, RealStep DEF CoreInv

LEMMA CoreHolds == Spec => []CoreInv
  BY CoreInit, CoreStep, PTL DEF Spec

--------------------------------------------------------------------------------
(* What a passed stage left behind *)

TracesOf == [paper |-> {}, enrol |-> {"device", "environment"}, admit |-> {"session"},
             submit |-> {"right", "wrong"}, grade |-> {"verdicts"}, cleanup |-> {}]
Traced(r, traces) == \A s \in Building : r.stages[s] = "passed" => TracesOf[s] \subseteq traces
\* The part of a script that has been asked, when it was answered as expected.
Heard(s, traces) == \A i \in 1..(s.next - 1) :
  Script[s.stage][i] \in DOMAIN Leaves => Leaves[Script[s.stage][i]] \subseteq traces

\* Nothing is skipped on the way, and the walk ends with a failure, over time, or with all five passed.
Settled(r) == \/ \E s \in Building : r.stages[s] = "failed"
              \/ \A s \in Building : r.stages[s] = "passed"
StagesInv ==
  /\ pc \in {"remember", "execute", "walk"} => \A s \in Building : run.stages[s] \in {"passed", "pending"}
  /\ pc = "race" /\ at # "cleanup" => \A s \in Building \ {at} : run.stages[s] \in {"passed", "pending"}
  /\ pc \in {"settle", "finish"} \/ (pc = "race" /\ at = "cleanup") => expired \/ Settled(run)
TracesInv ==
  /\ pc \in AtWork => Traced(run, sat)
  /\ pc = "race" /\ step.ok => Heard(step, sat)
PassedInv == IsTerminal(record) /\ record.overallOutcome = "passed" => sat = Traces

SatInv == StagesInv /\ TracesInv /\ PassedInv

LEMMA MoreTraces ==
  ASSUME NEW traces, NEW more, traces \subseteq more
  PROVE  /\ \A r : Traced(r, traces) => Traced(r, more)
         /\ \A s : Heard(s, traces) => Heard(s, more)
  BY DEF Traced, Heard

\* A stage whose requests were all answered as expected left its traces.
LEMMA AllHeard ==
  ASSUME NEW s \in Scripts, Answered(s), NEW traces, Heard(s, traces)
  PROVE  TracesOf[s.stage] \subseteq traces
  <1>1. s.stage \in StageIds /\ s.next \in 1..8 /\ s.next > Len(Script[s.stage])
    BY DEF Scripts, Answered
  <1>2. ASSUME NEW i \in 1..8, i <= Len(Script[s.stage]), Script[s.stage][i] \in DOMAIN Leaves
        PROVE  Leaves[Script[s.stage][i]] \subseteq traces
    <2>1. Len(Script[s.stage]) \in 2..7
      BY <1>1, SomeLength
    <2>2. i \in 1..(s.next - 1)
      BY <1>1, <1>2, <2>1
    <2> QED BY <1>2, <2>2 DEF Heard
  <1>3. CASE s.stage = "enrol"
    <2>1. Script[s.stage] = EnrolScript /\ Len(Script[s.stage]) = 4
      BY <1>3, Lengths DEF Script
    <2>2. EnrolScript[1] = "register" /\ EnrolScript[3] = "report"
      BY DEF EnrolScript
    <2>3. {"device"} \subseteq traces /\ {"environment"} \subseteq traces
      BY <1>2, <2>1, <2>2, LeavesTraces
    <2> QED BY <1>3, <2>3 DEF TracesOf
  <1>4. CASE s.stage = "admit"
    <2>1. Script[s.stage] = AdmitScript /\ Len(Script[s.stage]) = 2
      BY <1>4, Lengths DEF Script
    <2>2. AdmitScript[2] = "login"
      BY DEF AdmitScript
    <2>3. {"session"} \subseteq traces
      BY <1>2, <2>1, <2>2, LeavesTraces
    <2> QED BY <1>4, <2>3 DEF TracesOf
  <1>5. CASE s.stage = "submit"
    <2>1. Script[s.stage] = SubmitScript /\ Len(Script[s.stage]) = 4
      BY <1>5, Lengths DEF Script
    <2>2. SubmitScript[3] = "submitRight" /\ SubmitScript[4] = "submitWrong"
      BY DEF SubmitScript
    <2>3. {"right"} \subseteq traces /\ {"wrong"} \subseteq traces
      BY <1>2, <2>1, <2>2, LeavesTraces
    <2> QED BY <1>5, <2>3 DEF TracesOf
  <1>6. CASE s.stage = "grade"
    <2>1. Script[s.stage] = GradeScript /\ Len(Script[s.stage]) = 3
      BY <1>6, Lengths DEF Script
    <2>2. GradeScript[2] = "poll"
      BY DEF GradeScript
    <2>3. {"verdicts"} \subseteq traces
      BY <1>2, <2>1, <2>2, LeavesTraces
    <2> QED BY <1>6, <2>3 DEF TracesOf
  <1>7. CASE s.stage \in {"paper", "cleanup"}
    BY <1>7 DEF TracesOf
  <1> QED BY <1>1, <1>3, <1>4, <1>5, <1>6, <1>7 DEF StageIds

\* Five passed stages leave everything.
LEMMA AllPassed ==
  ASSUME NEW r, NEW traces, traces \subseteq Traces, Traced(r, traces),
         \A s \in Building : r.stages[s] = "passed"
  PROVE  traces = Traces
  <1>1. \A s \in {"enrol", "admit", "submit", "grade"} : TracesOf[s] \subseteq traces
    BY DEF Traced, Building, StageIds
  <1>2. TracesOf["enrol"] = {"device", "environment"} /\ TracesOf["admit"] = {"session"}
        /\ TracesOf["submit"] = {"right", "wrong"} /\ TracesOf["grade"] = {"verdicts"}
    BY DEF TracesOf
  <1> QED BY <1>1, <1>2 DEF Traces

\* A script that goes on after an answer as expected has been heard so far.
LEMMA HearsOn ==
  ASSUME TypeOK, NEW s \in Scripts, NEW good \in BOOLEAN, Sends(s, good), s.ok => Heard(s, sat),
         After(s, good).ok
  PROVE  Heard(After(s, good), sat')
  <1> DEFINE a == After(s, good)
  <1>1. ~ Answered(s)
    BY SendsHow
  <1>2. good /\ s.ok /\ a.stage = s.stage /\ a.next = s.next + 1
    BY <1>1, GoesOn
  <1>3. sat \subseteq sat' /\ (Asked(s) \in DOMAIN Leaves => Leaves[Asked(s)] \subseteq sat')
    BY <1>2, SendsTypes
  <1>4. s.next \in 1..8
    BY DEF Scripts
  <1> HIDE DEF a
  <1> SUFFICES ASSUME NEW i \in 1..(a.next - 1), Script[a.stage][i] \in DOMAIN Leaves
               PROVE  Leaves[Script[a.stage][i]] \subseteq sat'
    BY DEF Heard, a
  <1>5. CASE i = s.next
    BY <1>2, <1>3, <1>5 DEF Asked
  <1>6. CASE i # s.next
    <2>1. i \in 1..(s.next - 1)
      BY <1>2, <1>4, <1>6
    <2>2. Leaves[Script[s.stage][i]] \subseteq sat
      BY <1>2, <2>1 DEF Heard
    <2> QED BY <1>2, <1>3, <2>2
  <1> QED BY <1>5, <1>6

LEMMA PassedStep == TypeOK /\ ReportInv /\ SatInv /\ [Next]_vars => PassedInv'
  <1> SUFFICES ASSUME TypeOK, ReportInv, RunInv, RecordInv, SatInv, [Next]_vars
               PROVE  PassedInv'
    BY DEF ReportInv
  <1>t. /\ run \in Reports /\ record \in Reports \union {None} /\ None \notin Reports
        /\ step \in Scripts /\ late \subseteq Scripts /\ sat \subseteq Traces
    BY NoneAssumption DEF TypeOK
  <1>k. record' = record /\ sat' = sat => PassedInv'
    BY DEF SatInv, PassedInv, IsTerminal
  <1>o. pc' \in {"remember"} \union AtWork /\ Open(record') => PassedInv'
    BY DEF PassedInv, IsTerminal, Open
  <1>1. CASE Start \/ Rejects \/ Remembers \/ StopsWalking \/ SkipsCleanup
    BY <1>1, <1>k DEF Start, MayStart, Rejects, Remembers, StopsWalking, SkipsCleanup, rows, history
  <1>2. CASE BootWipes \/ BootRestores \/ BootForgets \/ BootFails \/ Crash
    BY <1>2, <1>k DEF BootWipes, BootRestores, BootForgets, BootFails, Crash, rows, history
  <1>3. CASE Configures \/ Initializes \/ Resets
    BY <1>3, <1>k DEF Configures, Initializes, Resets, Operates, rows
  <1>4. CASE Claims \/ Executes \/ WalksOn \/ CleansUp \/ Answers \/ TimesOut
    <2>1. pc' \in {"remember"} \union AtWork
      BY <1>4 DEF Claims, Executes, WalksOn, CleansUp, Answers, TimesOut, Opens, Closes, Saves, AtWork
    <2>2. RecordInv'
      BY RecordStep
    <2>3. Open(record')
      BY <2>1, <2>2 DEF RecordInv, Open
    <2> QED BY <1>o, <2>1, <2>3
  <1>5. CASE Requests \/ LateRequests
    <2>1. record' = record /\ sat \subseteq sat' /\ sat' \subseteq Traces
      <3>1. CASE Requests
        <4> PICK good \in BOOLEAN : Sends(step, good)
          BY <3>1 DEF Requests
        <4> QED BY <1>t, <3>1, SendsTypes DEF Requests
      <3>2. CASE LateRequests
        <4> PICK s \in late, good \in BOOLEAN : Sends(s, good)
          BY <3>2 DEF LateRequests
        <4> QED BY <1>t, <3>2, SendsTypes DEF LateRequests
      <3> QED BY <1>5, <3>1, <3>2
    <2> QED BY <2>1 DEF SatInv, PassedInv, IsTerminal
  <1>6. CASE Finishes
    <2>1. sat' = sat /\ pc = "finish"
      BY <1>6 DEF Finishes, history
    <2>2. CASE pc' = "idle"
      <3>1. record'.overallOutcome = Verdict(run)
        BY <1>t, <1>6, <2>2, FinishHolds
      <3>2. ASSUME Verdict(run) = "passed" PROVE sat = Traces
        <4>1. ~ expired /\ ~ (\E s \in StageIds : run.stages[s] = "failed")
          BY <3>2 DEF Verdict
        <4>2. \A s \in Building : run.stages[s] = "passed"
          BY <2>1, <4>1 DEF SatInv, StagesInv, Settled, Building
        <4>3. Traced(run, sat)
          BY <2>1 DEF SatInv, TracesInv, AtWork
        <4> QED BY <1>t, <4>2, <4>3, AllPassed
      <3> QED BY <2>1, <3>1, <3>2 DEF PassedInv
    <2>3. CASE pc' # "idle"
      BY <1>6, <1>k, <2>1, <2>3 DEF Finishes
    <2> QED BY <2>2, <2>3
  <1>7. CASE BreaksOff
    <2>1. sat' = sat /\ (record' = record \/ record' = BrokenReport)
      BY <1>7 DEF BreaksOff
    <2>2. BrokenReport.overallOutcome = "failed"
      BY <1>t, BrokenHolds
    <2> QED BY <1>k, <2>1, <2>2 DEF PassedInv
  <1>8. CASE BootSaves
    <2>1. record # None
      BY <1>8 DEF BootSaves, RecordInv, BootPcs, Open
    <2>2. record'.overallOutcome = "interrupted"
      BY <1>8, <2>1, BootReport
    <2> QED BY <2>2 DEF PassedInv
  <1>9. CASE UNCHANGED vars
    BY <1>9, <1>k DEF vars, rows, history
  <1> QED BY <1>1, <1>2, <1>3, <1>4, <1>5, <1>6, <1>7, <1>8, <1>9 DEF Next, Orchestrates, Boots

LEMMA StagesStay ==
  ASSUME StagesInv, UNCHANGED <<pc, run, at, expired>>
  PROVE  StagesInv'
  BY DEF StagesInv, Settled

LEMMA StagesElsewhere ==
  ASSUME pc' \notin {"remember", "execute", "walk", "race", "settle", "finish"}
  PROVE  StagesInv'
  BY DEF StagesInv

LEMMA StagesStep == TypeOK /\ ReportInv /\ StagesInv /\ [Next]_vars => StagesInv'
  <1> SUFFICES ASSUME TypeOK, RunInv, StagesInv, [Next]_vars
               PROVE  StagesInv'
    BY DEF ReportInv
  <1>t. run \in Reports /\ step \in Scripts /\ at \in StageIds /\ expired \in BOOLEAN
    BY DEF TypeOK
  <1>b. Building \subseteq StageIds /\ "cleanup" \in StageIds /\ "cleanup" \notin Building
    BY DEF Building, StageIds
  <1>s. {"running", "passed", "failed"} \subseteq Statuses
    BY DEF Statuses
  <1>1. CASE Start \/ Rejects \/ BreaksOff \/ Crash
    BY <1>1, StagesElsewhere DEF Start, MayStart, Rejects, BreaksOff, Crash, Recovers
  <1>2. CASE Boots \/ BootFails
    BY <1>2, StagesElsewhere DEF Boots, BootWipes, BootRestores, BootForgets, BootSaves, BootFails
  <1>3. CASE Claims
    <2>1. pc' = "remember" /\ run' = Blank
      BY <1>3 DEF Claims, RunInv
    <2>2. \A s \in Building : Blank.stages[s] = "pending"
      BY <1>b, BlankHolds
    <2> QED BY <2>1, <2>2 DEF StagesInv
  <1>4. CASE Remembers
    BY <1>4 DEF Remembers, StagesInv
  <1>5. CASE Executes
    <2> DEFINE running == [run EXCEPT !.state = "running"]
    <2>1. running \in Reports /\ running.stages = run.stages
      BY <1>t, SetsState
    <2>2. Saves(running, "walk", running) /\ pc = "execute"
      BY <1>5 DEF Executes
    <2> HIDE DEF running
    <2>3. run' = running /\ pc' \in {"walk", "broken"}
      BY <2>1, <2>2, SavesHow
    <2> QED BY <2>1, <2>2, <2>3 DEF StagesInv
  <1>6. CASE WalksOn
    <2> DEFINE g == BuildStages[NextStage]
    <2>1. g \in Building
      BY <1>6, NextStageIs, BuildStagesAre DEF WalksOn
    <2>2. Opens(run, g) /\ pc = "walk"
      BY <1>6 DEF WalksOn
    <2> HIDE DEF g
    <2>3. at' = g /\ run' = Marks(run, g, "running") /\ pc' \in {"race", "broken"}
      BY <1>t, <1>b, <2>1, <2>2, OpensHow
    <2>4. \A s \in Building \ {g} : run'.stages[s] = run.stages[s]
      <3>1. run'.stages = [run.stages EXCEPT ![g] = "running"]
        BY <1>t, <1>b, <1>s, <2>1, <2>3, MarksHold
      <3> QED BY <1>t, <1>b, <2>1, <3>1, FieldsOf
    <2>5. \A s \in Building \ {g} : run.stages[s] \in {"passed", "pending"}
      BY <2>2 DEF StagesInv
    <2> QED BY <1>b, <2>1, <2>3, <2>4, <2>5 DEF StagesInv
  <1>7. CASE StopsWalking
    <2>1. pc = "walk" /\ pc' = "settle" /\ run' = run /\ expired' = (NextStage <= 5)
      BY <1>7 DEF StopsWalking
    <2>2. CASE NextStage <= 5
      BY <2>1, <2>2 DEF StagesInv
    <2>3. CASE ~ (NextStage <= 5)
      <3>1. NextStage = 6
        BY <2>3, NextStageIs
      <3>2. \A j \in 1..5 : run.stages[BuildStages[j]] # "pending"
        BY <3>1, NextStageIs
      <3>3. \A s \in Building : run.stages[s] # "pending"
        <4>1. /\ run.stages["paper"] # "pending" /\ run.stages["enrol"] # "pending"
              /\ run.stages["admit"] # "pending" /\ run.stages["submit"] # "pending"
              /\ run.stages["grade"] # "pending"
          BY <3>2, BuildStagesAre
        <4> QED BY <4>1 DEF Building, StageIds
      <3>4. \A s \in Building : run.stages[s] = "passed"
        BY <2>1, <3>3 DEF StagesInv
      <3> QED BY <2>1, <3>4 DEF StagesInv, Settled
    <2> QED BY <2>2, <2>3
  <1>8. CASE Requests \/ LateRequests
    BY <1>8, StagesStay DEF Requests, LateRequests
  <1>9. CASE Answers \/ TimesOut
    <2>1. /\ pc = "race" /\ UNCHANGED <<at, expired>>
          /\ \E status \in {"passed", "failed"}, uploaded \in BOOLEAN : Closes(status, uploaded)
      <3>1. CASE Answers
        <4>1. step.uploaded \in BOOLEAN /\ (IF step.ok THEN "passed" ELSE "failed") \in {"passed", "failed"}
          BY <1>t DEF Scripts
        <4> QED BY <3>1, <4>1 DEF Answers
      <3>2. CASE TimesOut
        BY <3>2 DEF TimesOut
      <3> QED BY <1>9, <3>1, <3>2
    <2> PICK status \in {"passed", "failed"}, uploaded \in BOOLEAN : Closes(status, uploaded)
      BY <2>1
    <2>2. /\ run'.stages = [run.stages EXCEPT ![at] = status]
          /\ \/ at = "cleanup" /\ pc' = "finish"
             \/ at # "cleanup" /\ pc' = IF status = "passed" THEN "walk" ELSE "settle"
             \/ pc' = "broken"
      BY ClosesHow
    <2>3. run'.stages[at] = status /\ \A s \in StageIds \ {at} : run'.stages[s] = run.stages[s]
      BY <1>t, <2>2, FieldsOf
    <2>4. CASE at = "cleanup" /\ pc' = "finish"
      <3>1. \A s \in Building : run'.stages[s] = run.stages[s]
        BY <1>b, <2>3, <2>4
      <3> QED BY <2>1, <2>4, <3>1 DEF StagesInv, Settled
    <2>5. CASE at # "cleanup" /\ pc' = IF status = "passed" THEN "walk" ELSE "settle"
      <3>1. at \in Building /\ \A s \in Building \ {at} : run'.stages[s] \in {"passed", "pending"}
        BY <1>t, <1>b, <2>1, <2>3, <2>5 DEF StagesInv, Building
      <3>2. CASE status = "passed"
        BY <2>3, <2>5, <3>1, <3>2 DEF StagesInv
      <3>3. CASE status = "failed"
        BY <2>3, <2>5, <3>1, <3>3 DEF StagesInv, Settled
      <3> QED BY <3>2, <3>3
    <2>6. CASE pc' = "broken"
      BY <2>6, StagesElsewhere
    <2> QED BY <2>2, <2>4, <2>5, <2>6
  <1>10. CASE CleansUp
    <2> DEFINE r == Skipped(run)
    <2>1. /\ r \in Reports
          /\ \A s \in Building : r.stages[s] = IF run.stages[s] = "pending" THEN "skipped" ELSE run.stages[s]
      BY <1>t, <1>b, SkippedHolds
    <2>2. Opens(r, "cleanup") /\ pc = "settle" /\ expired' = expired
      BY <1>10 DEF CleansUp
    <2> HIDE DEF r
    <2>3. at' = "cleanup" /\ run' = Marks(r, "cleanup", "running") /\ pc' \in {"race", "broken"}
      BY <1>t, <1>b, <2>1, <2>2, OpensHow
    <2>4. \A s \in Building : run'.stages[s] = r.stages[s]
      <3>1. run'.stages = [r.stages EXCEPT !["cleanup"] = "running"]
        BY <1>b, <1>s, <2>1, <2>3, MarksHold
      <3> QED BY <1>b, <2>1, <3>1, FieldsOf
    <2>5. expired \/ Settled(run)
      BY <2>2 DEF StagesInv
    <2>6. expired' \/ Settled(run)'
      BY <2>1, <2>2, <2>4, <2>5 DEF Settled
    <2> QED BY <2>3, <2>6 DEF StagesInv
  <1>11. CASE SkipsCleanup
    <2> DEFINE r == Skipped(run)
    <2>1. /\ r \in Reports
          /\ \A s \in Building : r.stages[s] = IF run.stages[s] = "pending" THEN "skipped" ELSE run.stages[s]
      BY <1>t, <1>b, SkippedHolds
    <2>2. /\ run' = [r EXCEPT !.stages["cleanup"] = "skipped", !.cleanupCompleted = TRUE]
          /\ pc = "settle" /\ pc' = "finish" /\ expired' = expired
      BY <1>11 DEF SkipsCleanup
    <2> HIDE DEF r
    <2>3. run'.stages = [r.stages EXCEPT !["cleanup"] = "skipped"]
      BY <2>1, <2>2, SkipsHold
    <2>4. \A s \in Building : run'.stages[s] = r.stages[s]
      BY <1>b, <2>1, <2>3, FieldsOf
    <2>5. expired \/ Settled(run)
      BY <2>2 DEF StagesInv
    <2>6. expired' \/ Settled(run)'
      BY <2>1, <2>2, <2>4, <2>5 DEF Settled
    <2> QED BY <2>2, <2>6 DEF StagesInv
  <1>12. CASE Finishes
    BY <1>12, StagesElsewhere DEF Finishes
  <1>13. CASE Configures \/ Initializes \/ Resets
    <2>1. UNCHANGED <<pc, run, at, expired>>
      BY <1>13 DEF Configures, Initializes, Resets, Operates, walk
    <2> QED BY <2>1, StagesStay
  <1>14. CASE UNCHANGED vars
    <2>1. UNCHANGED <<pc, run, at, expired>>
      BY <1>14 DEF vars, walk
    <2> QED BY <2>1, StagesStay
  <1> QED BY <1>1, <1>2, <1>3, <1>4, <1>5, <1>6, <1>7, <1>8, <1>9, <1>10, <1>11, <1>12, <1>13, <1>14
          DEF Next, Orchestrates

LEMMA TracedElsewhere ==
  ASSUME pc' \notin AtWork
  PROVE  TracesInv'
  BY DEF TracesInv, AtWork

\* A report in which the stages passed are passed already.
LEMMA TracedOn ==
  ASSUME TracesInv, pc \in AtWork, sat' = sat,
         \A s \in Building : run'.stages[s] = "passed" => run.stages[s] = "passed",
         pc' # "race" \/ step'.next = 1
  PROVE  TracesInv'
  <1>1. Traced(run, sat)'
    BY DEF TracesInv, Traced
  <1>2. step'.next = 1 => Heard(step, sat)'
    BY DEF Heard
  <1> QED BY <1>1, <1>2 DEF TracesInv

LEMMA TracesStep == TypeOK /\ ReportInv /\ TracesInv /\ [Next]_vars => TracesInv'
  <1> SUFFICES ASSUME TypeOK, RunInv, TracesInv, [Next]_vars
               PROVE  TracesInv'
    BY DEF ReportInv
  <1>t. run \in Reports /\ step \in Scripts /\ at \in StageIds /\ late \subseteq Scripts
    BY DEF TypeOK
  <1>b. Building \subseteq StageIds /\ "cleanup" \in StageIds /\ "cleanup" \notin Building
    BY DEF Building, StageIds
  <1>s. {"running", "passed", "failed"} \subseteq Statuses
    BY DEF Statuses
  <1>k. UNCHANGED <<pc, run, step, sat>> => TracesInv'
    BY DEF TracesInv, Traced, Heard
  <1>1. CASE Start \/ Rejects \/ BreaksOff \/ Crash \/ Claims
    BY <1>1, TracedElsewhere DEF Start, MayStart, Rejects, BreaksOff, Crash, Recovers, Claims, AtWork
  <1>2. CASE Boots \/ BootFails
    BY <1>2, TracedElsewhere DEF Boots, BootWipes, BootRestores, BootForgets, BootSaves, BootFails, AtWork
  <1>3. CASE Remembers
    <2>1. pc' = "execute" /\ run' = Blank
      BY <1>3 DEF Remembers, RunInv
    <2>2. \A s \in Building : Blank.stages[s] = "pending"
      BY <1>b, BlankHolds
    <2> QED BY <2>1, <2>2 DEF TracesInv, Traced
  <1>4. CASE Executes
    <2> DEFINE running == [run EXCEPT !.state = "running"]
    <2>1. running \in Reports /\ running.stages = run.stages
      BY <1>t, SetsState
    <2>2. Saves(running, "walk", running) /\ pc = "execute" /\ sat' = sat
      BY <1>4 DEF Executes, history
    <2> HIDE DEF running
    <2>3. run' = running /\ pc' \in {"walk", "broken"}
      BY <2>1, <2>2, SavesHow
    <2> QED BY <2>1, <2>2, <2>3, TracedOn DEF AtWork
  <1>5. CASE WalksOn
    <2> DEFINE g == BuildStages[NextStage]
    <2>1. g \in StageIds
      BY <1>5, <1>b, NextStageIs, BuildStagesAre DEF WalksOn
    <2>2. Opens(run, g) /\ pc = "walk" /\ sat' = sat
      BY <1>5 DEF WalksOn, history
    <2> HIDE DEF g
    <2>3. step'.next = 1 /\ run' = Marks(run, g, "running")
      BY <1>t, <2>1, <2>2, OpensHow
    <2>4. run'.stages = [run.stages EXCEPT ![g] = "running"]
      BY <1>t, <1>s, <2>1, <2>3, MarksHold
    <2>5. \A s \in Building : run'.stages[s] = "passed" => run.stages[s] = "passed"
      BY <1>t, <1>b, <2>1, <2>4, FieldsOf
    <2> QED BY <2>2, <2>3, <2>5, TracedOn DEF AtWork
  <1>6. CASE StopsWalking
    <2>1. pc = "walk" /\ pc' = "settle" /\ run' = run /\ sat' = sat
      BY <1>6 DEF StopsWalking, history
    <2> QED BY <2>1, TracedOn DEF AtWork
  <1>7. CASE Requests
    <2> PICK good \in BOOLEAN : Sends(step, good) /\ step' = After(step, good)
      BY <1>7 DEF Requests
    <2>1. UNCHANGED <<pc, run>> /\ pc = "race"
      BY <1>7 DEF Requests
    <2>2. sat \subseteq sat'
      BY <1>t, SendsTypes
    <2>3. Traced(run, sat)
      BY <2>1 DEF TracesInv, AtWork
    <2>4. Traced(run, sat)'
      BY <2>1, <2>2, <2>3 DEF Traced
    <2>5. step'.ok => Heard(step', sat')
      BY <1>t, <2>1, HearsOn DEF TracesInv
    <2> QED BY <2>1, <2>4, <2>5 DEF TracesInv, Heard
  <1>8. CASE LateRequests
    <2> PICK s \in late, good \in BOOLEAN : Sends(s, good)
      BY <1>8 DEF LateRequests
    <2>1. UNCHANGED <<pc, run, step>>
      BY <1>8 DEF LateRequests
    <2>2. sat \subseteq sat'
      BY <1>t, SendsTypes
    <2> QED BY <2>1, <2>2 DEF TracesInv, Traced, Heard
  <1>9. CASE Answers
    <2> DEFINE status == IF step.ok THEN "passed" ELSE "failed"
    <2>1. /\ pc = "race" /\ Answered(step) /\ sat' = sat
          /\ Closes(status, step.uploaded)
      BY <1>9 DEF Answers, history
    <2>2. step.uploaded \in BOOLEAN /\ status \in {"passed", "failed"} /\ (status = "passed" => step.ok)
      BY <1>t DEF Scripts
    <2> HIDE DEF status
    <2>3. /\ run'.stages = [run.stages EXCEPT ![at] = status]
          /\ pc' # "race"
      BY <2>1, <2>2, ClosesHow
    <2>4. run'.stages[at] = status /\ \A s \in StageIds \ {at} : run'.stages[s] = run.stages[s]
      BY <1>t, <2>3, FieldsOf
    <2>5. status = "passed" => TracesOf[at] \subseteq sat
      <3>1. step.stage = at
        BY <2>1 DEF RunInv
      <3> QED BY <1>t, <2>1, <2>2, <3>1, AllHeard DEF TracesInv
    <2>6. Traced(run, sat)
      BY <2>1 DEF TracesInv, AtWork
    <2>7. ASSUME NEW s \in Building, run'.stages[s] = "passed"
          PROVE  TracesOf[s] \subseteq sat
      BY <1>b, <2>4, <2>5, <2>6, <2>7 DEF Traced
    <2>8. Traced(run, sat)'
      BY <2>1, <2>7 DEF Traced
    <2> QED BY <2>3, <2>8 DEF TracesInv
  <1>10. CASE TimesOut
    <2>1. pc = "race" /\ sat' = sat /\ Closes("failed", FALSE)
      BY <1>10 DEF TimesOut, history
    <2>2. run'.stages = [run.stages EXCEPT ![at] = "failed"] /\ pc' # "race"
      BY <2>1, ClosesHow
    <2>3. \A s \in Building : run'.stages[s] = "passed" => run.stages[s] = "passed"
      BY <1>t, <1>b, <2>2, FieldsOf
    <2> QED BY <2>1, <2>2, <2>3, TracedOn DEF AtWork
  <1>11. CASE CleansUp
    <2> DEFINE r == Skipped(run)
    <2>1. /\ r \in Reports
          /\ \A s \in Building : r.stages[s] = IF run.stages[s] = "pending" THEN "skipped" ELSE run.stages[s]
      BY <1>t, <1>b, SkippedHolds
    <2>2. Opens(r, "cleanup") /\ pc = "settle" /\ sat' = sat
      BY <1>11 DEF CleansUp, history
    <2> HIDE DEF r
    <2>3. step'.next = 1 /\ run' = Marks(r, "cleanup", "running")
      BY <1>t, <1>b, <2>1, <2>2, OpensHow
    <2>4. run'.stages = [r.stages EXCEPT !["cleanup"] = "running"]
      BY <1>b, <1>s, <2>1, <2>3, MarksHold
    <2>5. \A s \in Building : run'.stages[s] = r.stages[s]
      BY <1>b, <2>1, <2>4, FieldsOf
    <2>6. \A s \in Building : run'.stages[s] = "passed" => run.stages[s] = "passed"
      BY <2>1, <2>5
    <2> QED BY <2>2, <2>3, <2>6, TracedOn DEF AtWork
  <1>12. CASE SkipsCleanup
    <2> DEFINE r == Skipped(run)
    <2>1. /\ r \in Reports
          /\ \A s \in Building : r.stages[s] = IF run.stages[s] = "pending" THEN "skipped" ELSE run.stages[s]
      BY <1>t, <1>b, SkippedHolds
    <2>2. /\ run' = [r EXCEPT !.stages["cleanup"] = "skipped", !.cleanupCompleted = TRUE]
          /\ pc = "settle" /\ pc' = "finish" /\ sat' = sat
      BY <1>12 DEF SkipsCleanup
    <2> HIDE DEF r
    <2>3. run'.stages = [r.stages EXCEPT !["cleanup"] = "skipped"]
      BY <2>1, <2>2, SkipsHold
    <2>4. \A s \in Building : run'.stages[s] = r.stages[s]
      BY <1>b, <2>1, <2>3, FieldsOf
    <2>5. \A s \in Building : run'.stages[s] = "passed" => run.stages[s] = "passed"
      BY <2>1, <2>4
    <2> QED BY <2>2, <2>5, TracedOn DEF AtWork
  <1>13. CASE Finishes
    <2>1. CASE pc' = "idle"
      BY <2>1, TracedElsewhere DEF AtWork
    <2>2. CASE pc' # "idle"
      <3>1. pc = "finish" /\ pc' = "broken" /\ run' = run /\ sat' = sat
        BY <1>13, <2>2 DEF Finishes, history
      <3> QED BY <3>1, TracedOn DEF AtWork
    <2> QED BY <2>1, <2>2
  <1>14. CASE Configures \/ Initializes \/ Resets
    BY <1>14, <1>k DEF Configures, Initializes, Resets, Operates, walk
  <1>15. CASE UNCHANGED vars
    BY <1>15, <1>k DEF vars, walk, history
  <1> QED BY <1>1, <1>2, <1>3, <1>4, <1>5, <1>6, <1>7, <1>8, <1>9, <1>10, <1>11, <1>12, <1>13, <1>14, <1>15
          DEF Next, Orchestrates

LEMMA SatStep == TypeOK /\ ReportInv /\ SatInv /\ [Next]_vars => SatInv'
  BY PassedStep, StagesStep, TracesStep DEF SatInv

LEMMA SatInit == Init => SatInv
  <1> SUFFICES ASSUME Init PROVE SatInv
    OBVIOUS
  <1>1. pc = "idle" /\ record = None
    BY DEF Init
  <1> QED BY <1>1 DEF SatInv, StagesInv, TracesInv, PassedInv, AtWork, IsTerminal

--------------------------------------------------------------------------------
(* The way back to the operator's configuration *)

Theirs == config = had /\ users = "none"
Own == config = RehearsalPaper /\ users \in {"none", "rehearsal"}
Kept == prior = had \/ (prior = None /\ config = had)
\* Past its request to restore, a cleanup has restored: it does not forget before.
Restoring(s) == s.next \in 5..7 => config = had

HadInv == pc # "idle" => had.paper = "none"
IdleInv == pc = "idle" /\ (record = None \/ Clean(record)) => config = had /\ ~ Residue
ClaimedInv == pc \in {"claim", "remember"} => Theirs /\ prior = None
WorkInv == pc \in {"execute", "walk", "settle"} \/ (pc = "race" /\ at # "cleanup") => prior = had /\ (Theirs \/ Own)
CleanupInv == pc = "race" /\ at = "cleanup" =>
  /\ Kept /\ Restoring(step)
  /\ step.next <= 4 => prior = had
  /\ step.ok => (step.next > 1 => users = "none") /\ (step.next > 4 => config = had)
EndInv == pc \in {"finish", "broken"} =>
  /\ Kept /\ (LatePaper => prior = had) /\ (run.cleanupCompleted => Theirs)
  /\ \A s \in late : s.stage = "cleanup" => Restoring(s)
BootInv == pc \in BootPcs =>
  /\ Kept
  /\ pc \in {"bootRestore", "bootForget"} => users = "none"
  /\ pc = "bootForget" => config = had
  /\ pc = "bootSave" /\ run.cleanupCompleted => Theirs

Rest == HadInv /\ IdleInv /\ ClaimedInv /\ WorkInv /\ CleanupInv /\ EndInv /\ BootInv
RestoreInv == ~ blind /\ ~ orphaned => Rest

\* The history only ever adds up.
LEMMA NothingUnseen == TypeOK /\ [Next]_vars => (blind => blind') /\ (orphaned => orphaned')
  <1> SUFFICES ASSUME TypeOK, [Next]_vars PROVE (blind => blind') /\ (orphaned => orphaned')
    OBVIOUS
  <1>t. blind \in BOOLEAN /\ orphaned \in BOOLEAN
    BY DEF TypeOK
  <1>1. CASE Start \/ Rejects \/ Claims \/ Remembers \/ Executes \/ WalksOn \/ StopsWalking
    BY <1>t, <1>1 DEF Start, MayStart, Rejects, Claims, Remembers, Executes, WalksOn, StopsWalking, history
  <1>2. CASE Answers \/ TimesOut \/ CleansUp \/ SkipsCleanup \/ Finishes \/ BreaksOff \/ Requests \/ LateRequests
    BY <1>t, <1>2 DEF Answers, TimesOut, CleansUp, SkipsCleanup, Finishes, BreaksOff, Requests, LateRequests, history
  <1>3. CASE Crash \/ Boots \/ BootFails \/ Configures \/ Initializes \/ Resets
    BY <1>3 DEF Crash, Boots, BootFails, BootWipes, BootRestores, BootForgets, BootSaves, Configures, Initializes, Resets,
                Operates, history
  <1>4. CASE UNCHANGED vars
    BY <1>4 DEF vars, history
  <1> QED BY <1>1, <1>2, <1>3, <1>4 DEF Next, Orchestrates

\* What there is to show depends on where a step leads.
LEMMA RestIdle ==
  ASSUME pc' = "idle", record' = None \/ Clean(record)' => Theirs' /\ had'.paper # "rehearsal"
  PROVE  Rest'
  BY DEF Rest, HadInv, IdleInv, ClaimedInv, WorkInv, CleanupInv, EndInv, BootInv, BootPcs, Theirs, Residue

LEMMA RestClaimed ==
  ASSUME pc' \in {"claim", "remember"}, had'.paper = "none", Theirs', prior' = None
  PROVE  Rest'
  BY DEF Rest, HadInv, IdleInv, ClaimedInv, WorkInv, CleanupInv, EndInv, BootInv, BootPcs

LEMMA RestWork ==
  ASSUME pc' \in {"execute", "walk", "settle"} \/ (pc' = "race" /\ at' # "cleanup"),
         had'.paper = "none", prior' = had', Theirs' \/ Own'
  PROVE  Rest'
  BY DEF Rest, HadInv, IdleInv, ClaimedInv, WorkInv, CleanupInv, EndInv, BootInv, BootPcs

LEMMA RestCleanup ==
  ASSUME pc' = "race", at' = "cleanup", had'.paper = "none", CleanupInv'
  PROVE  Rest'
  BY DEF Rest, HadInv, IdleInv, ClaimedInv, WorkInv, CleanupInv, EndInv, BootInv, BootPcs

LEMMA RestEnd ==
  ASSUME pc' \in {"finish", "broken"}, had'.paper = "none", EndInv'
  PROVE  Rest'
  BY DEF Rest, HadInv, IdleInv, ClaimedInv, WorkInv, CleanupInv, EndInv, BootInv, BootPcs

LEMMA RestBoot ==
  ASSUME pc' \in BootPcs, had'.paper = "none", BootInv'
  PROVE  Rest'
  BY DEF Rest, HadInv, IdleInv, ClaimedInv, WorkInv, CleanupInv, EndInv, BootInv, BootPcs

LEMMA RestStays ==
  ASSUME Rest, UNCHANGED <<config, had, users, prior, pc, at, step, late, run, record>>
  PROVE  Rest'
  BY DEF Rest, HadInv, IdleInv, ClaimedInv, WorkInv, CleanupInv, EndInv, BootInv, Theirs, Own, Kept, Restoring,
         Residue, LatePaper, Clean, IsTerminal

\* With the row in place, whatever puts a configuration back puts back the operator's.
LEMMA PutsBackTheirs == TypeOK /\ Kept => PutsBack = had
  BY NoneAssumption DEF TypeOK, Kept, PutsBack

\* A building stage knows two configurations.
LEMMA BuildsOwn ==
  ASSUME TypeOK, NEW s \in Scripts, s.stage # "cleanup", NEW good \in BOOLEAN, Sends(s, good),
         had' = had, had.paper = "none", Theirs \/ Own
  PROVE  (Theirs \/ Own)' /\ prior' = prior
  <1>1. CASE s.stage = "paper"
    <2>1. s.next \in 1..3
      BY <1>1, SendsHow, AskedByPaper
    <2>2. CASE s.next = 1
      BY <1>1, <2>2, Touches DEF Theirs, Own
    <2>3. CASE s.next = 2
      BY <1>1, <2>3, Touches DEF Theirs, Own, RehearsalPaper
    <2>4. CASE s.next = 3
      BY <1>1, <2>4, Touches DEF Theirs, Own
    <2> QED BY <2>1, <2>2, <2>3, <2>4
  <1>2. CASE s.stage # "paper"
    BY <1>2, Touches DEF Theirs, Own
  <1> QED BY <1>1, <1>2

\* A cleanup keeps the row until it has restored.
LEMMA CleansOn ==
  ASSUME TypeOK, NEW s \in Scripts, s.stage = "cleanup", NEW good \in BOOLEAN, Sends(s, good),
         had' = had, Kept, Restoring(s)
  PROVE  /\ Kept' /\ \A u : u.next = After(s, good).next => Restoring(u)'
         /\ config = had => config' = had
         /\ After(s, good).next <= 4 => s.next <= 3 /\ prior' = prior
         /\ (s.ok => (s.next > 1 => users = "none") /\ (s.next > 4 => config = had)) =>
              (After(s, good).ok => (After(s, good).next > 1 => users' = "none")
                                     /\ (After(s, good).next > 4 => config' = had))
  <1> DEFINE a == After(s, good)
  <1>1. ~ Answered(s) /\ Len(Script[s.stage]) = 7
    BY SendsHow, Lengths
  <1>2. s.next \in 1..7 /\ (s.next = 1 => Asked(s) = "reset") /\ (s.next = 4 => Asked(s) = "restore")
    BY <1>1, AskedByCleanup
  <1>3. /\ a.next = s.next + 1 \/ (~ good /\ a.next = 8)
        /\ s.next = 4 /\ ~ good => a.next = 8
        /\ a.ok => s.ok /\ good /\ a.next = s.next + 1
    <2>0. a.next = IF ~ good /\ Asked(s) \in Decisive THEN Len(Script[s.stage]) + 1 ELSE s.next + 1
      BY <1>1, GoesOn, Zenon
    <2>1. /\ a.next = IF ~ good /\ Asked(s) \in Decisive THEN 8 ELSE s.next + 1
          /\ a.ok => s.ok /\ good /\ a.next = s.next + 1
      <3>1. a.next = IF ~ good /\ Asked(s) \in Decisive THEN 8 ELSE s.next + 1
        <4> HIDE DEF a
        <4> QED BY <1>1, <2>0
      <3>2. (a.ok => s.ok /\ good) /\ (a.ok => a.next = s.next + 1)
        BY <1>1, GoesOn, Zenon
      <3> QED BY <3>1, <3>2
    <2>2. s.next = 4 => Asked(s) \in Decisive
      BY <1>2 DEF Decisive
    <2> HIDE DEF a
    <2> QED BY <2>1, <2>2
  <1> HIDE DEF a
  <1>4. CASE s.next = 1
    <2>1. UNCHANGED <<config, prior>> /\ (users' = "none" \/ (~ good /\ users' = users))
      BY <1>4, Touches
    <2> QED BY <1>3, <1>4, <2>1 DEF Kept, Restoring, a
  <1>5. CASE s.next = 4
    <2>1. UNCHANGED <<users, prior>> /\ (config' = had \/ (~ good /\ config' = config))
      BY <1>5, Touches, PutsBackTheirs
    <2> QED BY <1>3, <1>5, <2>1 DEF Kept, Restoring, a
  <1>6. CASE s.next = 5
    <2>1. UNCHANGED <<config, users>> /\ (prior' = None \/ prior' = prior) /\ config = had
      BY <1>6, Touches DEF Restoring
    <2> QED BY <1>3, <1>6, <2>1 DEF Kept, Restoring, a
  <1>7. CASE s.next \in {2, 3, 6, 7}
    <2>1. UNCHANGED <<config, users, prior>>
      BY <1>7, Touches
    <2> QED BY <1>3, <1>7, <2>1 DEF Kept, Restoring, a
  <1> QED BY <1>2, <1>4, <1>5, <1>6, <1>7

\* While execute builds, a stage that opens or closes leaves the exam alone.
LEMMA WorkGoesOn ==
  ASSUME Rest, LateInv, RunInv, prior = had, had.paper = "none", Theirs \/ Own,
         UNCHANGED <<config, had, users, prior>>,
         \/ pc' \in {"walk", "settle"} \/ (pc' = "race" /\ at' # "cleanup")
         \/ pc' = "broken" /\ ~ run'.cleanupCompleted /\ ~ LateCleanup'
  PROVE  Rest'
  <1>1. (Theirs \/ Own)' /\ prior' = had' /\ had'.paper = "none"
    BY DEF Theirs, Own
  <1>2. CASE pc' = "broken"
    <2>1. EndInv'
      BY <1>1, <1>2 DEF EndInv, Kept, LateCleanup
    <2> QED BY <1>1, <1>2, <2>1, RestEnd
  <1>3. CASE pc' # "broken"
    BY <1>1, <1>3, RestWork
  <1> QED BY <1>2, <1>3

LEMMA RestoreStep == CoreInv /\ RestoreInv /\ [Next]_vars => RestoreInv'
  <1> SUFFICES ASSUME CoreInv, RestoreInv, [Next]_vars, ~ blind', ~ orphaned'
               PROVE  Rest'
    BY DEF RestoreInv
  <1>c. TypeOK /\ ReportInv /\ LateInv /\ ClaimInv /\ RunInv /\ RecordInv
    BY DEF CoreInv, ReportInv
  <1>t. /\ run \in Reports /\ record \in Reports \union {None} /\ None \notin Reports
        /\ step \in Scripts /\ at \in StageIds /\ late \subseteq Scripts
    BY <1>c, NoneAssumption DEF TypeOK
  <1>f. ~ blind /\ ~ orphaned
    BY <1>c, NothingUnseen
  <1>r. Rest /\ HadInv /\ IdleInv /\ ClaimedInv /\ WorkInv /\ CleanupInv /\ EndInv /\ BootInv
    BY <1>f DEF RestoreInv, Rest
  <1>s. RunInv'
    BY <1>c, RunStep
  \* Nothing is late while the rehearsal walks.
  <1>l. pc \in {"claim", "remember", "execute", "walk", "race"} => ~ LatePaper /\ ~ LateCleanup
    BY <1>c, <1>f DEF LateInv
  <1>1. CASE Start
    <2>1. /\ pc = "idle" /\ pc' = "claim" /\ UNCHANGED <<config, had, users, prior>>
          /\ blind' = (blind \/ prior # None)
          /\ record # None => Clean(record)
          /\ users = "none" /\ config.paper = "none"
      BY <1>1 DEF Start, MayStart, NothingToLose, Clean, exam, rows
    <2>2. prior = None /\ config = had
      BY <1>r, <2>1 DEF IdleInv
    <2> QED BY <2>1, <2>2, RestClaimed DEF Theirs
  <1>2. CASE Rejects
    <2>1. /\ pc \in {"claim", "remember"} /\ pc' = "idle" /\ UNCHANGED <<config, had, users, prior>>
          /\ orphaned' = (orphaned \/ pc = "remember")
      BY <1>2 DEF Rejects, exam, rows
    <2>2. Theirs /\ had.paper = "none"
      BY <1>r, <2>1 DEF ClaimedInv, HadInv
    <2> QED BY <2>1, <2>2, RestIdle DEF Theirs
  <1>3. CASE Claims
    <2>1. pc = "claim" /\ pc' = "remember" /\ UNCHANGED <<config, had, users, prior>>
      BY <1>3 DEF Claims, exam
    <2>2. Theirs /\ prior = None /\ had.paper = "none"
      BY <1>r, <2>1 DEF ClaimedInv, HadInv
    <2> QED BY <2>1, <2>2, RestClaimed DEF Theirs
  <1>4. CASE Remembers
    <2>1. pc = "remember" /\ pc' = "execute" /\ UNCHANGED <<config, had, users>> /\ prior' = config
      BY <1>4 DEF Remembers, exam, history
    <2>2. Theirs /\ had.paper = "none"
      BY <1>r, <2>1 DEF ClaimedInv, HadInv
    <2> QED BY <2>1, <2>2, RestWork DEF Theirs
  <1>5. CASE Executes
    <2>1. /\ pc = "execute" /\ pc' \in {"walk", "broken"} /\ UNCHANGED <<config, had, users, prior, late>>
      BY <1>5 DEF Executes, Saves, exam, history
    <2>2. run'.cleanupCompleted = run.cleanupCompleted
      <3> DEFINE running == [run EXCEPT !.state = "running"]
      <3>1. running \in Reports /\ running.cleanupCompleted = run.cleanupCompleted
        BY <1>t, SetsState
      <3>2. Saves(running, "walk", running)
        BY <1>5 DEF Executes
      <3> HIDE DEF running
      <3>3. run' = running
        BY <1>c, <3>1, <3>2, SavesHow
      <3> QED BY <3>1, <3>3
    <2>3. prior = had /\ (Theirs \/ Own) /\ had.paper = "none" /\ ~ run.cleanupCompleted /\ ~ LateCleanup'
      BY <1>c, <1>r, <1>l, <2>1 DEF WorkInv, HadInv, RunInv, LateCleanup
    <2> QED BY <1>c, <1>r, <2>1, <2>2, <2>3, WorkGoesOn
  <1>6. CASE WalksOn
    <2> DEFINE g == BuildStages[NextStage]
    <2>1. g \in StageIds /\ g # "cleanup" /\ "running" \in Statuses
      BY <1>6, NextStageIs, BuildStagesAre DEF WalksOn, Building, Statuses
    <2>2. Opens(run, g) /\ pc = "walk" /\ UNCHANGED <<config, had, users, prior, late>>
      BY <1>6 DEF WalksOn, exam, history
    <2> HIDE DEF g
    <2>3. at' = g /\ pc' \in {"race", "broken"} /\ run' = Marks(run, g, "running")
      BY <1>c, <1>t, <2>1, <2>2, OpensHow
    <2>4. run'.cleanupCompleted = run.cleanupCompleted
      BY <1>t, <2>1, <2>3, MarksHold
    <2>5. prior = had /\ (Theirs \/ Own) /\ had.paper = "none" /\ ~ run.cleanupCompleted /\ ~ LateCleanup'
      BY <1>c, <1>r, <1>l, <2>2 DEF WorkInv, HadInv, RunInv, LateCleanup
    <2> QED BY <1>c, <1>r, <2>1, <2>2, <2>3, <2>4, <2>5, WorkGoesOn
  <1>7. CASE StopsWalking
    <2>1. pc = "walk" /\ pc' = "settle" /\ UNCHANGED <<config, had, users, prior>>
      BY <1>7 DEF StopsWalking, exam, rows, history
    <2>2. prior = had /\ (Theirs \/ Own) /\ had.paper = "none"
      BY <1>r, <2>1 DEF WorkInv, HadInv
    <2> QED BY <1>c, <1>r, <2>1, <2>2, WorkGoesOn
  <1>8. CASE Requests
    <2> PICK good \in BOOLEAN : Sends(step, good) /\ step' = After(step, good)
      BY <1>8 DEF Requests
    <2>1. pc = "race" /\ UNCHANGED <<pc, at, had, run, late>>
      BY <1>8 DEF Requests
    <2>2. step.stage = at /\ had.paper = "none"
      BY <1>c, <1>r, <2>1 DEF RunInv, HadInv
    <2>3. CASE at # "cleanup"
      <3>1. prior = had /\ (Theirs \/ Own)
        BY <1>r, <2>1, <2>3 DEF WorkInv
      <3>2. (Theirs \/ Own)' /\ prior' = prior
        BY <1>c, <1>t, <2>1, <2>2, <2>3, <3>1, BuildsOwn
      <3> QED BY <2>1, <2>2, <2>3, <3>1, <3>2, RestWork
    <2>4. CASE at = "cleanup"
      <3>1. /\ Kept /\ Restoring(step)
            /\ step.next <= 4 => prior = had
            /\ step.ok => (step.next > 1 => users = "none") /\ (step.next > 4 => config = had)
        BY <1>r, <2>1, <2>4 DEF CleanupInv
      <3>2. /\ Kept' /\ Restoring(step)'
            /\ step'.next <= 4 => step.next <= 3 /\ prior' = prior
            /\ step'.ok => (step'.next > 1 => users' = "none") /\ (step'.next > 4 => config' = had)
        BY <1>c, <1>t, <2>1, <2>2, <2>4, <3>1, CleansOn
      <3>3. step'.next <= 4 => prior' = had'
        <4>1. step.next \in 1..8
          BY <1>t DEF Scripts
        <4> QED BY <2>1, <3>1, <3>2, <4>1
      <3>4. CleanupInv'
        BY <2>1, <3>2, <3>3 DEF CleanupInv
      <3> QED BY <2>1, <2>2, <2>4, <3>4, RestCleanup
    <2> QED BY <2>3, <2>4
  <1>9. CASE Answers \/ TimesOut
    <2>1. /\ pc = "race" /\ UNCHANGED <<at, config, had, users, prior>>
          /\ late' = late \/ late' = late \union Unheard(step)
          /\ \E status \in {"passed", "failed"}, uploaded \in BOOLEAN :
               Closes(status, uploaded) /\ (status = "passed" => step.ok /\ Answered(step))
      <3>1. CASE Answers
        <4>1. step.uploaded \in BOOLEAN /\ (IF step.ok THEN "passed" ELSE "failed") \in {"passed", "failed"}
          BY <1>t DEF Scripts
        <4> QED BY <3>1, <4>1 DEF Answers, exam, history
      <3>2. CASE TimesOut
        BY <3>2 DEF TimesOut, exam, history
      <3> QED BY <1>9, <3>1, <3>2
    <2> PICK status \in {"passed", "failed"}, uploaded \in BOOLEAN :
               Closes(status, uploaded) /\ (status = "passed" => step.ok /\ Answered(step))
      BY <2>1
    <2>2. \/ /\ at = "cleanup" => pc' = "finish" /\ (run'.cleanupCompleted <=> status = "passed")
             /\ at # "cleanup" => pc' \in {"walk", "settle"}
          \/ pc' = "broken" /\ run'.cleanupCompleted = run.cleanupCompleted
      BY <1>c, ClosesHow
    <2>3. step.stage = at /\ had.paper = "none" /\ ~ run.cleanupCompleted /\ ~ LatePaper /\ ~ LateCleanup
      BY <1>c, <1>r, <1>l, <2>1 DEF RunInv, HadInv
    <2>4. \A u \in late' \ late : u.stage = at /\ u.next = step.next
      BY <1>t, <2>1, <2>3, UnheardGoesOn
    <2>5. CASE at # "cleanup"
      <3>1. prior = had /\ (Theirs \/ Own)
        BY <1>r, <2>1, <2>5 DEF WorkInv
      <3>2. ~ LateCleanup'
        BY <2>3, <2>4, <2>5 DEF LateCleanup
      <3> QED BY <1>c, <1>r, <2>1, <2>2, <2>3, <2>5, <3>1, <3>2, WorkGoesOn
    <2>6. CASE at = "cleanup"
      <3>1. /\ Kept /\ Restoring(step)
            /\ step.ok => (step.next > 1 => users = "none") /\ (step.next > 4 => config = had)
        BY <1>r, <2>1, <2>6 DEF CleanupInv
      <3>2. ~ LatePaper'
        BY <2>3, <2>4, <2>6 DEF LatePaper
      <3>3. \A s \in late' : s.stage = "cleanup" => Restoring(s)'
        <4>1. ASSUME NEW s \in late', s.stage = "cleanup" PROVE Restoring(s)'
          <5>1. s \in late' \ late
            BY <2>3, <4>1 DEF LateCleanup
          <5>2. s.next = step.next
            BY <2>4, <5>1
          <5> QED BY <2>1, <3>1, <5>2 DEF Restoring
        <4> QED BY <4>1
      <3>4. run'.cleanupCompleted => Theirs'
        <4>1. Len(Script[step.stage]) = 7 /\ step.next \in 1..8
          BY <1>t, <2>3, <2>6, Lengths DEF Scripts
        <4>2. status = "passed" => step.ok /\ step.next > 4
          BY <4>1 DEF Answered
        <4>3. status = "passed" => config = had /\ users = "none"
          BY <3>1, <4>1, <4>2
        <4> QED BY <2>1, <2>2, <2>3, <2>6, <4>3 DEF Theirs
      <3>5. EndInv'
        BY <2>1, <3>1, <3>2, <3>3, <3>4 DEF EndInv, Kept
      <3> QED BY <2>1, <2>2, <2>3, <2>6, <3>5, RestEnd
    <2> QED BY <2>5, <2>6

  <1>10. CASE LateRequests
    <2> PICK s \in late, good \in BOOLEAN : Sends(s, good) /\ late' = (late \ {s}) \union Unheard(After(s, good))
      BY <1>10 DEF LateRequests
    <2>1. UNCHANGED <<pc, at, step, had, run, record>> /\ s \in Scripts
      BY <1>t, <1>10 DEF LateRequests
    <2>2. ~ Answered(s)
      BY <1>c DEF LateInv
    <2>3. After(s, good) \in Scripts /\ After(s, good).stage = s.stage
      BY <2>1, <2>2, GoesOn
    <2>4. \A u \in late' \ late : u.stage = s.stage /\ u.next = After(s, good).next
      BY <2>3, UnheardGoesOn
    <2>5. CASE s.stage \notin {"paper", "cleanup"}
      <3>1. UNCHANGED <<config, users, prior>>
        BY <1>c, <2>1, <2>5, Touches
      <3>2. (LatePaper' => LatePaper) /\ \A u \in late' : u.stage = "cleanup" => u \in late
        BY <2>4, <2>5 DEF LatePaper
      <3>3. EndInv'
        BY <1>r, <2>1, <3>1, <3>2 DEF EndInv, Kept, Theirs, Restoring
      <3>4. HadInv' /\ IdleInv' /\ ClaimedInv' /\ WorkInv' /\ CleanupInv' /\ BootInv'
        BY <1>r, <2>1, <3>1 DEF HadInv, IdleInv, ClaimedInv, WorkInv, CleanupInv, BootInv, Theirs, Own, Kept, Restoring,
                                Residue, Clean, IsTerminal
      <3> QED BY <3>3, <3>4 DEF Rest
    <2>6. CASE s.stage = "paper"
      <3>1. LatePaper /\ ~ LateCleanup
        BY <1>c, <1>f, <2>6 DEF LatePaper, LateInv
      <3>2. pc = "settle" \/ (pc = "broken" /\ ~ run.cleanupCompleted) \/ (pc = "idle" /\ Refused)
        BY <1>c, <1>f, <3>1 DEF LateInv
      <3>3. CASE pc = "settle"
        <4>1. prior = had /\ (Theirs \/ Own) /\ had.paper = "none"
          BY <1>r, <3>3 DEF WorkInv, HadInv
        <4>2. (Theirs \/ Own)' /\ prior' = prior
          BY <1>c, <2>1, <2>6, <4>1, BuildsOwn
        <4> QED BY <2>1, <3>3, <4>1, <4>2, RestWork
      <3>4. CASE pc = "broken" /\ ~ run.cleanupCompleted
        <4>1. prior = had /\ had.paper = "none"
          BY <1>r, <3>1, <3>4 DEF EndInv, HadInv
        <4>2. prior' = prior
          BY <1>c, <2>1, <2>6, Touches
        <4>3. \A u \in late' : u.stage # "cleanup"
          BY <2>4, <2>6, <3>1 DEF LateCleanup
        <4>4. EndInv'
          BY <2>1, <3>4, <4>1, <4>2, <4>3 DEF EndInv, Kept
        <4> QED BY <2>1, <3>4, <4>1, <4>4, RestEnd
      <3>5. CASE pc = "idle" /\ Refused
        BY <2>1, <3>5, RestIdle DEF Refused, Clean, IsTerminal
      <3> QED BY <3>2, <3>3, <3>4, <3>5
    <2>7. CASE s.stage = "cleanup"
      <3>1. LateCleanup /\ ~ LatePaper
        BY <1>c, <1>f, <2>7 DEF LateCleanup, LateInv
      <3>2. (pc \in {"finish", "broken"} /\ ~ run.cleanupCompleted) \/ (pc = "idle" /\ Refused)
        BY <1>c, <3>1 DEF LateInv
      <3>3. CASE pc \in {"finish", "broken"} /\ ~ run.cleanupCompleted
        <4>1. Kept /\ Restoring(s) /\ had.paper = "none" /\ \A u \in late : u.stage = "cleanup" => Restoring(u)
          BY <1>r, <2>7, <3>3 DEF EndInv, HadInv
        <4>2. /\ Kept' /\ \A u : u.next = After(s, good).next => Restoring(u)'
              /\ config = had => config' = had
          BY <1>c, <2>1, <2>7, <4>1, CleansOn
        <4>3. ASSUME NEW u \in late', u.stage = "cleanup" PROVE Restoring(u)'
          <5>1. CASE u \in late
            BY <2>1, <4>1, <4>2, <4>3, <5>1 DEF Restoring
          <5>2. CASE u \notin late
            BY <2>4, <4>2, <5>2
          <5> QED BY <5>1, <5>2
        <4>4. ~ LatePaper'
          BY <2>4, <2>7, <3>1 DEF LatePaper
        <4>5. EndInv'
          BY <2>1, <3>3, <4>2, <4>3, <4>4 DEF EndInv
        <4> QED BY <2>1, <3>3, <4>1, <4>5, RestEnd
      <3>4. CASE pc = "idle" /\ Refused
        BY <2>1, <3>4, RestIdle DEF Refused, Clean, IsTerminal
      <3> QED BY <3>2, <3>3, <3>4
    <2> QED BY <2>5, <2>6, <2>7
  <1>11. CASE CleansUp
    <2> DEFINE r == Skipped(run)
    <2>1. r \in Reports /\ r.cleanupCompleted = run.cleanupCompleted
      BY <1>t, SkippedHolds
    <2>2. /\ Opens(r, "cleanup") /\ pc = "settle" /\ mutated /\ UNCHANGED <<config, had, users, prior, late>>
          /\ "cleanup" \in StageIds /\ "running" \in Statuses
      BY <1>11 DEF CleansUp, exam, history, StageIds, Statuses
    <2> HIDE DEF r
    <2>3. /\ at' = "cleanup" /\ pc' \in {"race", "broken"} /\ run' = Marks(r, "cleanup", "running")
          /\ step'.next = 1
      BY <1>c, <2>1, <2>2, OpensHow
    <2>4. run'.cleanupCompleted = run.cleanupCompleted
      BY <2>1, <2>2, <2>3, MarksHold
    <2>5. /\ prior = had /\ (Theirs \/ Own) /\ had.paper = "none" /\ ~ run.cleanupCompleted
          /\ ~ LatePaper /\ ~ LateCleanup
      BY <1>c, <1>f, <1>r, <2>2 DEF WorkInv, HadInv, RunInv, LateInv
    <2>6. CASE pc' = "race"
      <3>1. CleanupInv'
        BY <2>2, <2>3, <2>5 DEF CleanupInv, Kept, Restoring
      <3> QED BY <2>2, <2>3, <2>5, <2>6, <3>1, RestCleanup
    <2>7. CASE pc' = "broken"
      <3>1. ~ LateCleanup'
        BY <2>2, <2>5 DEF LateCleanup
      <3> QED BY <1>c, <1>r, <2>2, <2>4, <2>5, <2>7, <3>1, WorkGoesOn
    <2> QED BY <2>3, <2>6, <2>7
  <1>12. CASE SkipsCleanup
    <2>1. /\ pc = "settle" /\ pc' = "finish" /\ UNCHANGED <<config, had, users, prior, late>>
          /\ blind' = (blind \/ config.paper = "rehearsal" \/ LatePaper)
      BY <1>12 DEF SkipsCleanup, LatePaper, exam, rows
    <2>2. prior = had /\ (Theirs \/ Own) /\ had.paper = "none" /\ ~ LateCleanup
      BY <1>c, <1>r, <2>1 DEF WorkInv, HadInv, LateInv
    <2>3. Theirs /\ ~ LatePaper
      <3>1. blind \in BOOLEAN
        BY <1>c DEF TypeOK
      <3>2. ~ (config.paper = "rehearsal") /\ ~ LatePaper
        BY <2>1, <3>1
      <3>3. Own => config.paper = "rehearsal"
        BY DEF Own, RehearsalPaper
      <3> QED BY <2>2, <3>2, <3>3
    <2>4. EndInv'
      BY <2>1, <2>2, <2>3 DEF EndInv, Kept, Theirs, LatePaper, LateCleanup
    <2> QED BY <2>1, <2>2, <2>4, RestEnd
  <1>13. CASE Finishes
    <2>1. pc = "finish" /\ pc' \in {"idle", "broken"} /\ UNCHANGED <<config, had, users, prior, late>>
      BY <1>13 DEF Finishes, exam, history
    <2>2. EndInv /\ had.paper = "none" /\ (run.cleanupCompleted => Theirs)
      BY <1>r, <2>1 DEF EndInv, HadInv
    <2>3. CASE pc' = "idle"
      <3>1. record' \in Reports /\ record'.cleanupCompleted = run.cleanupCompleted
        BY <1>t, <1>13, <2>3, FinishHolds
      <3>2. record' = None \/ Clean(record)' => Theirs'
        BY <1>t, <2>1, <2>2, <3>1 DEF Clean, Theirs
      <3> QED BY <2>1, <2>2, <2>3, <3>2, RestIdle
    <2>4. CASE pc' = "broken"
      <3>1. run' = run
        BY <1>13, <2>4 DEF Finishes
      <3>2. EndInv'
        BY <2>1, <2>2, <3>1 DEF EndInv, Kept, Theirs, LatePaper, Restoring
      <3> QED BY <2>1, <2>2, <2>4, <3>2, RestEnd
    <2> QED BY <2>1, <2>3, <2>4
  <1>14. CASE BreaksOff
    <2>1. /\ pc = "broken" /\ pc' = "idle" /\ UNCHANGED <<config, had, users, prior>>
          /\ record' = BrokenReport \/ orphaned' = TRUE
      BY <1>14 DEF BreaksOff, exam
    <2>2. had.paper = "none" /\ (run.cleanupCompleted => Theirs)
      BY <1>r, <2>1 DEF EndInv, HadInv
    <2>3. BrokenReport \in Reports /\ BrokenReport.cleanupCompleted = run.cleanupCompleted
      BY <1>t, BrokenHolds
    <2>4. record' = None \/ Clean(record)' => Theirs'
      BY <1>t, <2>1, <2>2, <2>3 DEF Clean, Theirs
    <2> QED BY <2>1, <2>2, <2>4, RestIdle
  <1>15. CASE Crash
    <2>1. UNCHANGED <<config, had, users, prior, record>> /\ pc' = Recovers
      BY <1>15 DEF Crash, exam, rows
    <2>2. CASE pc = "idle"
      <3>1. record = None \/ IsTerminal(record)
        BY <1>c, <1>f, <2>2 DEF RecordInv, NoOrphanRun
      <3>2. pc' = "idle"
        BY <2>1, <3>1 DEF Recovers
      <3>3. IdleInv'
        BY <1>r, <2>1, <2>2 DEF IdleInv, Residue, Clean, IsTerminal
      <3> QED BY <3>2, <3>3 DEF Rest, HadInv, IdleInv, ClaimedInv, WorkInv, CleanupInv, EndInv, BootInv, BootPcs
    <2>3. CASE pc = "claim"
      <3>1. Theirs /\ had.paper = "none" /\ (record = None \/ Clean(record))
        BY <1>c, <1>r, <2>3 DEF ClaimedInv, HadInv, RecordInv
      <3>2. pc' = "idle"
        BY <2>1, <3>1 DEF Recovers, Clean
      <3> QED BY <2>1, <3>1, <3>2, RestIdle DEF Theirs
    <2>4. CASE pc \notin {"idle", "claim"}
      <3>1. pc \in {"remember"} \union AtWork \union BootPcs
        BY <1>c, <2>4, Pcs DEF TypeOK
      <3>2. Open(record)
        BY <1>c, <3>1 DEF RecordInv
      <3>3. pc' = "boot" /\ had.paper = "none"
        BY <1>r, <2>1, <2>4, <3>2 DEF Recovers, Open, IsTerminal, HadInv
      <3>4. Kept
        <4>1. CASE pc = "remember"
          BY <1>r, <4>1 DEF ClaimedInv, Theirs, Kept
        <4>2. CASE pc \in {"execute", "walk", "settle"} \/ (pc = "race" /\ at # "cleanup")
          BY <1>r, <4>2 DEF WorkInv, Kept
        <4>3. CASE pc = "race" /\ at = "cleanup"
          BY <1>r, <4>3 DEF CleanupInv
        <4>4. CASE pc \in {"finish", "broken"}
          BY <1>r, <4>4 DEF EndInv
        <4>5. CASE pc \in BootPcs
          BY <1>r, <4>5 DEF BootInv
        <4> QED BY <3>1, <4>1, <4>2, <4>3, <4>4, <4>5 DEF AtWork
      <3>5. BootInv'
        BY <2>1, <3>3, <3>4 DEF BootInv, Kept
      <3> QED BY <2>1, <3>3, <3>5, RestBoot DEF BootPcs
    <2> QED BY <2>2, <2>3, <2>4
  <1>16. CASE BootWipes
    <2>1. pc = "boot" /\ pc' = "bootRestore" /\ users' = "none" /\ UNCHANGED <<config, had, prior>>
      BY <1>16 DEF BootWipes, rows, history
    <2>2. Kept /\ had.paper = "none"
      BY <1>r, <2>1 DEF BootInv, HadInv, BootPcs
    <2>3. BootInv'
      BY <2>1, <2>2 DEF BootInv, Kept
    <2> QED BY <2>1, <2>2, <2>3, RestBoot DEF BootPcs
  <1>17. CASE BootRestores
    <2>1. pc = "bootRestore" /\ pc' = "bootForget" /\ config' = PutsBack /\ UNCHANGED <<users, had, prior>>
      BY <1>17 DEF BootRestores, rows, history
    <2>2. Kept /\ users = "none" /\ had.paper = "none"
      BY <1>r, <2>1 DEF BootInv, HadInv, BootPcs
    <2>3. PutsBack = had
      BY <1>c, <2>2, PutsBackTheirs
    <2>4. BootInv'
      BY <2>1, <2>2, <2>3 DEF BootInv, Kept
    <2> QED BY <2>1, <2>2, <2>4, RestBoot DEF BootPcs
  <1>18. CASE BootForgets
    <2>1. pc = "bootForget" /\ pc' = "bootSave" /\ prior' = None /\ UNCHANGED <<config, users, had>>
      BY <1>18 DEF BootForgets, exam, history
    <2>2. config = had /\ users = "none" /\ had.paper = "none"
      BY <1>r, <2>1 DEF BootInv, HadInv, BootPcs
    <2>3. BootInv'
      BY <2>1, <2>2 DEF BootInv, Kept, Theirs
    <2> QED BY <2>1, <2>2, <2>3, RestBoot DEF BootPcs
  <1>19. CASE BootFails
    <2>1. /\ pc \in {"boot", "bootRestore", "bootForget"} /\ pc' = "bootSave" /\ run' = run
          /\ UNCHANGED <<config, users, had, prior>>
      BY <1>19 DEF BootFails, exam, rows, history
    <2>2. Kept /\ had.paper = "none" /\ ~ run.cleanupCompleted
      BY <1>c, <1>r, <2>1 DEF BootInv, HadInv, BootPcs, RunInv
    <2>3. BootInv'
      BY <2>1, <2>2 DEF BootInv, Kept
    <2> QED BY <2>1, <2>2, <2>3, RestBoot DEF BootPcs
  <1>20. CASE BootSaves
    <2>1. pc = "bootSave" /\ pc' = "idle" /\ UNCHANGED <<config, users, had>>
      BY <1>20 DEF BootSaves, exam, history
    <2>2. had.paper = "none" /\ (run.cleanupCompleted => Theirs) /\ record # None
      BY <1>c, <1>r, <2>1 DEF BootInv, HadInv, BootPcs, RecordInv, Open
    <2>3. record' \in Reports /\ record'.cleanupCompleted = run.cleanupCompleted
      BY <1>c, <1>20, <2>2, BootReport
    <2>4. record' = None \/ Clean(record)' => Theirs'
      BY <1>t, <2>1, <2>2, <2>3 DEF Clean, Theirs
    <2> QED BY <2>1, <2>2, <2>4, RestIdle
  <1>21. CASE Configures \/ Initializes \/ Resets
    <2>1. pc = "idle" /\ pc' = "idle" /\ UNCHANGED record
      BY <1>21 DEF Configures, Initializes, Resets, Operates, walk, rows
    <2>2. IdleInv'
      <3> SUFFICES ASSUME record = None \/ Clean(record) PROVE config' = had' /\ ~ Residue'
        BY <2>1 DEF IdleInv, Clean, IsTerminal
      <3>1. config = had /\ config.paper # "rehearsal" /\ users # "rehearsal"
        BY <1>r, <2>1 DEF IdleInv, Residue
      <3>2. CASE Configures
        <4>1. had' = config' /\ users' = users
          BY <3>2 DEF Configures
        <4>2. config'.paper # "rehearsal"
          <5>1. config = [paper |-> config.paper, settings |-> config.settings]
            BY <1>c DEF TypeOK, Configurations
          <5>2. (\E s \in Settings : config' = [config EXCEPT !.settings = s]) \/ config' = [config EXCEPT !.paper = "real"]
            BY <3>2 DEF Configures
          <5>3. ASSUME NEW s, config' = [config EXCEPT !.settings = s] PROVE config'.paper = config.paper
            BY <5>1, <5>3
          <5>4. config' = [config EXCEPT !.paper = "real"] => config'.paper = "real"
            BY <5>1
          <5> QED BY <3>1, <5>2, <5>3, <5>4
        <4> QED BY <3>1, <4>1, <4>2 DEF Residue
      <3>3. CASE Initializes \/ Resets
        BY <3>1, <3>3 DEF Initializes, Resets, Residue
      <3> QED BY <1>21, <3>2, <3>3
    <2> QED BY <2>1, <2>2 DEF Rest, HadInv, IdleInv, ClaimedInv, WorkInv, CleanupInv, EndInv, BootInv, BootPcs
  <1>22. CASE UNCHANGED vars
    <2>1. UNCHANGED <<config, had, users, prior, pc, at, step, late, run, record>>
      BY <1>22 DEF vars, exam, rows, walk, history
    <2> QED BY <1>r, <2>1, RestStays
  <1> QED BY <1>1, <1>2, <1>3, <1>4, <1>5, <1>6, <1>7, <1>8, <1>9, <1>10, <1>11, <1>12, <1>13, <1>14,
             <1>15, <1>16, <1>17, <1>18, <1>19, <1>20, <1>21, <1>22
          DEF Next, Orchestrates, Boots

LEMMA RestoreInit == Init => RestoreInv
  <1> SUFFICES ASSUME Init PROVE Rest
    BY DEF RestoreInv
  <1>1. /\ pc = "idle" /\ config = had /\ config = [paper |-> "none", settings |-> Default] /\ users = "none"
    BY DEF Init
  <1> QED BY <1>1 DEF Rest, HadInv, IdleInv, ClaimedInv, WorkInv, CleanupInv, EndInv, BootInv, BootPcs, Residue

--------------------------------------------------------------------------------
(* Theorems *)

\* The lease is out as long as the rehearsal works, a record that says "running" has somebody who
\* will settle it, and both rows hold what they are read as.
THEOREM RunStaysAccountedFor == Spec => []RunIsAccountedFor
  <1>1. CoreInv => RunIsAccountedFor
    BY DEF CoreInv, ReportInv, LeaseInv, RecordInv, RunIsAccountedFor
  <1> QED BY <1>1, CoreHolds, PTL

\* Whatever a rehearsal that has not lost track finds or leaves on the machine is claimed by its record.
THEOREM ClaimStaysFirst == Spec => []ClaimPrecedesData
  <1>1. CoreInv => ClaimPrecedesData
    <2> SUFFICES ASSUME CoreInv, pc \in OrchestratorPcs, Residue, ~ blind
                 PROVE  record # None /\ record.ownsSystemState /\ ~ IsTerminal(record)
      BY DEF ClaimPrecedesData
    <2>1. pc # "claim"
      BY DEF CoreInv, ClaimInv
    <2>2. Open(record)
      BY <2>1, Pcs DEF CoreInv, ReportInv, RecordInv
    <2> QED BY <2>2 DEF Open, IsTerminal
  <1> QED BY <1>1, CoreHolds, PTL

\* A rehearsal that is reported as passed stored everything a sat exam leaves behind.
THEOREM PassedStaysSat == Spec => []PassedMeansSat
  <1>1. Init => CoreInv /\ SatInv
    BY CoreInit, SatInit
  <1>2. CoreInv /\ SatInv /\ [Next]_vars => (CoreInv /\ SatInv)'
    BY CoreStep, SatStep DEF CoreInv
  <1>3. SatInv => PassedMeansSat
    BY DEF SatInv, PassedInv, PassedMeansSat
  <1> QED BY <1>1, <1>2, <1>3, PTL DEF Spec

\* What a rehearsal leaves behind is never mistaken for a clean machine: a report that says "cleaned" is
\* right, whatever was refused, whoever was late and wherever the process died, and start refuses a
\* machine that holds anything of the rehearsal.
THEOREM NothingStaysLeft == Spec => []NothingIsLeft
  <1>1. Init => CoreInv /\ RestoreInv
    BY CoreInit, RestoreInit
  <1>2. CoreInv /\ RestoreInv /\ [Next]_vars => (CoreInv /\ RestoreInv)'
    BY CoreStep, RestoreStep
  <1>3. RestoreInv => CleanedMeansRestored
    BY DEF RestoreInv, Rest, IdleInv, CleanedMeansRestored, Quiet, Clean
  <1>4. ResidueIsBlocked
    BY DEF ResidueIsBlocked, Residue, MayStart, NothingToLose
  <1> QED BY <1>1, <1>2, <1>3, <1>4, PTL DEF Spec, NothingIsLeft

\* A real exam is erased or replaced by nobody but the operator.
THEOREM RealExamStaysSafe == Spec => RealExamIsSafe
  <1> DEFINE Safe == ~ orphaned /\ late = {} /\ changes' = changes =>
                       /\ config.paper = "real" => config'.paper = "real"
                       /\ users = "real" => users' = "real"
  <1>1. CoreInv /\ [Next]_vars => [Safe]_vars
    <2> SUFFICES ASSUME CoreInv, Next, ~ orphaned, late = {}, changes' = changes,
                        config.paper = "real" \/ users = "real"
                 PROVE  config' = config /\ users' = users
      OBVIOUS
    <2>1. pc = "idle"
      <3>1. pc \in {"idle"} \union OrchestratorPcs \union BootPcs
        BY DEF CoreInv, TypeOK
      <3> QED BY <3>1 DEF CoreInv, RealInv, NoRealExam
    <2>2. CASE Start \/ Crash
      BY <2>2 DEF Start, MayStart, Crash, exam
    <2>3. CASE Configures \/ Initializes \/ Resets
      <3>1. changes' = changes + 1
        BY <2>3 DEF Configures, Initializes, Resets, Operates
      <3>2. changes \in Nat
        BY BoundsAssumption DEF CoreInv, TypeOK
      <3> QED BY <3>1, <3>2
    <2>4. ~ LateRequests
      BY DEF LateRequests
    <2>5. ~ Orchestrates /\ ~ Requests /\ ~ Rejects
      BY <2>1 DEF Orchestrates, Claims, Remembers, Executes, WalksOn, StopsWalking, Answers, TimesOut, CleansUp,
                  SkipsCleanup, Finishes, BreaksOff, Requests, Rejects
    <2>6. ~ Boots /\ ~ BootFails
      BY <2>1 DEF Boots, BootWipes, BootRestores, BootForgets, BootSaves, BootFails
    <2> QED BY <2>2, <2>3, <2>4, <2>5, <2>6 DEF Next
  <1> QED BY <1>1, CoreHolds, PTL DEF Spec, RealExamIsSafe

================================================================================
