----------------------------- MODULE GradingProofs -----------------------------
(***************************************************************************)
(* What each operation of ExecutionSlots does to the slots, for any set of *)
(* executions and any ceiling; and with it the safety of Grading for any   *)
(* number of questions, places for jobs, test cases, retries, submissions  *)
(* and failures.                                                           *)
(***************************************************************************)
EXTENDS Grading, TLAPS, FiniteSetTheorems, SequenceTheorems, FunctionTheorems

Distinct(q) == \A a, b \in 1..Len(q) : q[a] = q[b] => a = b

--------------------------------------------------------------------------------
(* Sequences and their elements *)

\* The elements of a sequence stand at its places.
LEMMA Occurs ==
  ASSUME NEW S, NEW q \in Seq(S)
  PROVE  \A w : w \in ToSet(q) <=> \E i \in 1..Len(q) : q[i] = w
  <1>1. DOMAIN q = 1..Len(q)
    BY LenProperties
  <1> QED BY <1>1 DEF ToSet

\* A sequence has no more elements than places, and as many if none repeats.
LEMMA Elements ==
  ASSUME NEW S, NEW q \in Seq(S)
  PROVE  /\ ToSet(q) \subseteq S
         /\ IsFiniteSet(ToSet(q))
         /\ Cardinality(ToSet(q)) \in Nat /\ Cardinality(ToSet(q)) <= Len(q)
         /\ Distinct(q) => Cardinality(ToSet(q)) = Len(q)
         /\ \A w : w \in ToSet(q) <=> \E i \in 1..Len(q) : q[i] = w
  <1>1. Len(q) \in Nat /\ DOMAIN q = 1..Len(q) /\ q \in [1..Len(q) -> S]
    BY LenProperties
  <1>2. \A w : w \in ToSet(q) <=> \E i \in 1..Len(q) : q[i] = w
    BY <1>1 DEF ToSet
  <1>3. q \in Surjection(1..Len(q), ToSet(q))
    <2>1. q \in [1..Len(q) -> ToSet(q)]
      BY <1>1, <1>2
    <2> QED BY <2>1, <1>2, Fun_IsSurj
  <1>4. IsFiniteSet(1..Len(q)) /\ Cardinality(1..Len(q)) = Len(q)
    BY <1>1, FS_Interval
  <1>5. /\ IsFiniteSet(ToSet(q)) /\ Cardinality(ToSet(q)) <= Len(q)
        /\ Cardinality(ToSet(q)) = Len(q) <=> q \in Injection(1..Len(q), ToSet(q))
    BY <1>3, <1>4, FS_Surjection
  <1>6. Distinct(q) => q \in Injection(1..Len(q), ToSet(q))
    BY <1>3, Fun_IsInj DEF Distinct, Surjection
  <1> QED BY <1>1, <1>2, <1>5, <1>6, FS_CardinalityType

SplitsAt(q, n, head, rest) ==
  /\ head = SubSeq(q, 1, n) /\ Len(head) = n
  /\ rest = SubSeq(q, n + 1, Len(q)) /\ Len(rest) = Len(q) - n
  /\ ToSet(head) \union ToSet(rest) = ToSet(q)
  /\ Distinct(q) => Distinct(head) /\ Distinct(rest) /\ ToSet(head) \intersect ToSet(rest) = {}

\* The first n elements of a queue and the rest of it.
LEMMA Split ==
  ASSUME NEW S, NEW q \in Seq(S)
  PROVE  \A n \in 0..Len(q) : \E head, rest \in Seq(S) : SplitsAt(q, n, head, rest)
  <1> TAKE n \in 0..Len(q)
  <1> DEFINE head == SubSeq(q, 1, n)
             rest == SubSeq(q, n + 1, Len(q))
  <1>1. Len(q) \in Nat /\ \A i \in 1..Len(q) : q[i] \in S
    BY LenProperties
  <1>2. head \in Seq(S) /\ Len(head) = n /\ \A i \in 1..n : head[i] = q[i]
    BY <1>1, SubSeqProperties
  <1>3. rest \in Seq(S) /\ Len(rest) = Len(q) - n /\ \A i \in 1..(Len(q) - n) : rest[i] = q[n + i]
    <2>1. n + 1 \in Int /\ \A i \in (n + 1)..Len(q) : q[i] \in S
      BY <1>1
    <2>2. rest \in Seq(S) /\ Len(rest) = (IF n + 1 <= Len(q) THEN Len(q) - (n + 1) + 1 ELSE 0)
          /\ \A i \in 1..(Len(q) - (n + 1) + 1) : rest[i] = q[(n + 1) + i - 1]
      BY <1>1, <2>1, SubSeqProperties
    <2>3. Len(q) - (n + 1) + 1 = Len(q) - n
      BY <1>1
    <2>4. Len(rest) = Len(q) - n
      BY <1>1, <2>2
    <2>5. ASSUME NEW i \in 1..(Len(q) - n) PROVE rest[i] = q[n + i]
      <3>1. rest[i] = q[(n + 1) + i - 1]
        BY <2>2, <2>3
      <3>2. (n + 1) + i - 1 = n + i
        BY <1>1
      <3> QED BY <3>1, <3>2
    <2> QED BY <2>2, <2>4, <2>5
  <1> HIDE DEF head, rest
  <1>4. /\ \A w : w \in ToSet(q) <=> \E i \in 1..Len(q) : q[i] = w
        /\ \A w : w \in ToSet(head) <=> \E i \in 1..n : head[i] = w
        /\ \A w : w \in ToSet(rest) <=> \E i \in 1..(Len(q) - n) : rest[i] = w
    <2>1. head \in Seq(S) /\ rest \in Seq(S) /\ Len(head) = n /\ Len(rest) = Len(q) - n
      BY <1>2, <1>3
    <2>2. \A w : w \in ToSet(q) <=> \E i \in 1..Len(q) : q[i] = w
      BY Occurs
    <2>3. \A w : w \in ToSet(head) <=> \E i \in 1..Len(head) : head[i] = w
      BY <2>1, Occurs
    <2>4. \A w : w \in ToSet(rest) <=> \E i \in 1..Len(rest) : rest[i] = w
      BY <2>1, Occurs
    <2>5. \A w : w \in ToSet(head) <=> \E i \in 1..n : head[i] = w
      BY <2>1, <2>3
    <2>6. \A w : w \in ToSet(rest) <=> \E i \in 1..(Len(q) - n) : rest[i] = w
      BY <2>1, <2>4
    <2> QED BY <2>2, <2>5, <2>6
  <1>5. ToSet(head) \union ToSet(rest) = ToSet(q)
    <2>1. ASSUME NEW w \in ToSet(head) PROVE w \in ToSet(q)
      BY <1>1, <1>2, <1>4
    <2>2. ASSUME NEW w \in ToSet(rest) PROVE w \in ToSet(q)
      <3>1. PICK i \in 1..(Len(q) - n) : rest[i] = w
        BY <1>4
      <3>2. n + i \in 1..Len(q) /\ q[n + i] = w
        BY <1>1, <1>3, <3>1
      <3> QED BY <3>2, <1>4
    <2>3. ASSUME NEW w \in ToSet(q) PROVE w \in ToSet(head) \union ToSet(rest)
      <3>1. PICK i \in 1..Len(q) : q[i] = w
        BY <1>4
      <3>2. CASE i <= n
        BY <1>1, <1>2, <1>4, <3>1, <3>2
      <3>3. CASE ~ i <= n
        <4>1. i - n \in 1..(Len(q) - n) /\ n + (i - n) = i
          BY <1>1, <3>3
        <4> QED BY <1>3, <1>4, <3>1, <4>1
      <3> QED BY <3>2, <3>3
    <2> QED BY <2>1, <2>2, <2>3
  <1>6. ASSUME Distinct(q) PROVE Distinct(head)
    BY <1>1, <1>2, <1>6 DEF Distinct
  <1>7. ASSUME Distinct(q) PROVE Distinct(rest)
    <2>1. ASSUME NEW a \in 1..(Len(q) - n), NEW b \in 1..(Len(q) - n), rest[a] = rest[b] PROVE a = b
      <3>1. n + a \in 1..Len(q) /\ n + b \in 1..Len(q) /\ q[n + a] = q[n + b]
        BY <1>1, <1>3, <2>1
      <3>2. n + a = n + b
        BY <3>1, <1>7 DEF Distinct
      <3> QED BY <3>2
    <2> QED BY <1>3, <2>1 DEF Distinct
  <1>8. ASSUME Distinct(q), NEW w, w \in ToSet(head), w \in ToSet(rest) PROVE FALSE
    <2>1. PICK i \in 1..n : head[i] = w
      BY <1>4, <1>8
    <2>2. PICK j \in 1..(Len(q) - n) : rest[j] = w
      BY <1>4, <1>8
    <2>3. i \in 1..Len(q) /\ n + j \in 1..Len(q) /\ q[i] = q[n + j]
      BY <1>1, <1>2, <1>3, <2>1, <2>2
    <2>4. i = n + j
      BY <2>3, <1>8 DEF Distinct
    <2> QED BY <2>4
  <1>9. head = SubSeq(q, 1, n) /\ rest = SubSeq(q, n + 1, Len(q))
    BY DEF head, rest
  <1> QED BY <1>2, <1>3, <1>5, <1>6, <1>7, <1>8, <1>9 DEF SplitsAt

\* Someone new at the end of a queue.
LEMMA Joins ==
  ASSUME NEW S, NEW q \in Seq(S), NEW w \in S
  PROVE  /\ Append(q, w) \in Seq(S)
         /\ ToSet(Append(q, w)) = ToSet(q) \union {w}
         /\ Distinct(q) /\ w \notin ToSet(q) => Distinct(Append(q, w))
  <1> DEFINE t == Append(q, w)
  <1>1. /\ t \in Seq(S) /\ Len(t) = Len(q) + 1 /\ t[Len(q) + 1] = w
        /\ \A i \in 1..Len(q) : t[i] = q[i]
    BY AppendProperties
  <1>2. Len(q) \in Nat
    BY LenProperties
  <1> HIDE DEF t
  <1>3. /\ \A v : v \in ToSet(t) <=> \E i \in 1..(Len(q) + 1) : t[i] = v
        /\ \A v : v \in ToSet(q) <=> \E i \in 1..Len(q) : q[i] = v
    BY <1>1, Occurs
  <1>4. ToSet(t) = ToSet(q) \union {w}
    <2>1. ASSUME NEW v \in ToSet(t) PROVE v \in ToSet(q) \union {w}
      <3>1. PICK i \in 1..(Len(q) + 1) : t[i] = v
        BY <1>3
      <3>2. i \in 1..Len(q) \/ i = Len(q) + 1
        BY <1>2
      <3> QED BY <1>1, <1>3, <3>1, <3>2
    <2>2. ASSUME NEW v \in ToSet(q) PROVE v \in ToSet(t)
      <3>1. PICK i \in 1..Len(q) : q[i] = v
        BY <1>3
      <3> QED BY <1>1, <1>2, <1>3, <3>1
    <2>3. w \in ToSet(t)
      BY <1>1, <1>2, <1>3
    <2> QED BY <2>1, <2>2, <2>3
  <1>5. ASSUME Distinct(q), w \notin ToSet(q) PROVE Distinct(t)
    <2>1. ASSUME NEW a \in 1..(Len(q) + 1), NEW b \in 1..(Len(q) + 1), t[a] = t[b] PROVE a = b
      <3>1. (a \in 1..Len(q) \/ a = Len(q) + 1) /\ (b \in 1..Len(q) \/ b = Len(q) + 1)
        BY <1>2
      <3>2. CASE a \in 1..Len(q) /\ b \in 1..Len(q)
        BY <1>1, <1>5, <2>1, <3>2 DEF Distinct
      <3>3. CASE a \in 1..Len(q) /\ b = Len(q) + 1
        BY <1>1, <1>3, <1>5, <2>1, <3>3
      <3>4. CASE a = Len(q) + 1 /\ b \in 1..Len(q)
        BY <1>1, <1>3, <1>5, <2>1, <3>4
      <3> QED BY <3>1, <3>2, <3>3, <3>4
    <2> QED BY <1>1, <2>1 DEF Distinct
  <1> QED BY <1>1, <1>4, <1>5 DEF t

--------------------------------------------------------------------------------
(* The operations *)

\* A ceiling that was asked for is one of the ceilings allowed.
LEMMA ClampInBounds == ASSUME NEW n \in Int PROVE Clamp(n) \in Ceilings
  BY JobBoundsAssumption DEF Clamp, Ceilings

LEMMA CeilingIsNat == ASSUME NEW c \in Ceilings PROVE c \in Nat
  BY JobBoundsAssumption DEF Ceilings

\* How many leave the queue.
LEMMA GrantedFits ==
  ASSUME NEW W, NEW running, IsFiniteSet(running), NEW queue \in Seq(W), NEW c \in Nat
  PROVE  /\ Granted(running, queue, c) \in 0..Len(queue)
         /\ Cardinality(running) \in Nat
         /\ Cardinality(running) >= c => Granted(running, queue, c) = 0
         /\ Cardinality(running) < c => Cardinality(running) + Granted(running, queue, c) <= c
         /\ Granted(running, queue, c) < Len(queue) =>
              Cardinality(running) + Granted(running, queue, c) >= c
  <1>1. Cardinality(running) \in Nat /\ Len(queue) \in Nat
    BY FS_CardinalityType, LenProperties
  <1> QED BY <1>1 DEF Granted, Room

\* What resumeNext leaves: nobody is lost, and if somebody started the ceiling allowed it.
LEMMA Resumed ==
  ASSUME NEW W, NEW running \in SUBSET W, IsFiniteSet(running), NEW queue \in Seq(W),
         NEW c \in Ceilings, Resumes(running, queue, c)
  PROVE  /\ ceiling' = c
         /\ active' \in SUBSET W /\ IsFiniteSet(active') /\ waiting' \in Seq(W)
         /\ active' \union ToSet(waiting') = running \union ToSet(queue)
         /\ active' # running => Cardinality(active') <= c
         /\ Distinct(queue) /\ running \intersect ToSet(queue) = {} =>
              /\ Distinct(waiting') /\ active' \intersect ToSet(waiting') = {}
              /\ waiting' # <<>> => Cardinality(active') >= c
  <1> DEFINE n == Granted(running, queue, c)
  <1>1. c \in Nat
    BY CeilingIsNat
  <1>2. /\ n \in 0..Len(queue)
        /\ Cardinality(running) \in Nat
        /\ Cardinality(running) >= c => n = 0
        /\ Cardinality(running) < c => Cardinality(running) + n <= c
        /\ n < Len(queue) => Cardinality(running) + n >= c
    BY <1>1, GrantedFits
  <1> HIDE DEF n
  <1>3. PICK head \in Seq(W), rest \in Seq(W) : SplitsAt(queue, n, head, rest)
    BY <1>2, Split
  <1>4. /\ head = SubSeq(queue, 1, n) /\ Len(head) = n
        /\ rest = SubSeq(queue, n + 1, Len(queue)) /\ Len(rest) = Len(queue) - n
        /\ ToSet(head) \union ToSet(rest) = ToSet(queue)
        /\ Distinct(queue) => Distinct(head) /\ Distinct(rest) /\ ToSet(head) \intersect ToSet(rest) = {}
    BY <1>3 DEF SplitsAt
  <1>5. ceiling' = c /\ active' = running \union ToSet(head) /\ waiting' = rest
    BY <1>4 DEF Resumes, n
  <1>6. /\ ToSet(head) \subseteq W /\ IsFiniteSet(ToSet(head))
        /\ Cardinality(ToSet(head)) \in Nat /\ Cardinality(ToSet(head)) <= n
        /\ Distinct(head) => Cardinality(ToSet(head)) = n
    <2>1. /\ ToSet(head) \subseteq W /\ IsFiniteSet(ToSet(head))
          /\ Cardinality(ToSet(head)) \in Nat /\ Cardinality(ToSet(head)) <= Len(head)
          /\ Distinct(head) => Cardinality(ToSet(head)) = Len(head)
      BY Elements
    <2> QED BY <1>4, <2>1
  <1>7. /\ IsFiniteSet(active')
        /\ Cardinality(active')
             = Cardinality(running) + Cardinality(ToSet(head)) - Cardinality(running \intersect ToSet(head))
    BY <1>5, <1>6, FS_Union
  <1>8. Cardinality(running \intersect ToSet(head)) \in Nat
    BY FS_Intersection, FS_CardinalityType
  <1>9. ASSUME active' # running PROVE Cardinality(active') <= c
    <2>1. ToSet(head) # {}
      BY <1>5, <1>9
    <2>2. n # 0
      BY <1>6, <2>1, FS_EmptySet
    <2> QED BY <1>1, <1>2, <1>6, <1>7, <1>8, <2>2
  <1>10. ASSUME Distinct(queue), running \intersect ToSet(queue) = {}
        PROVE  /\ Distinct(waiting') /\ active' \intersect ToSet(waiting') = {}
               /\ waiting' # <<>> => Cardinality(active') >= c
    <2>1. running \intersect ToSet(head) = {} /\ Distinct(head)
      BY <1>4, <1>10
    <2>2. Cardinality(active') = Cardinality(running) + n
      <3>1. Cardinality(running \intersect ToSet(head)) = 0 /\ Cardinality(ToSet(head)) = n
        BY <1>6, <2>1, FS_EmptySet
      <3> QED BY <1>2, <1>7, <3>1
    <2>3. ASSUME waiting' # <<>> PROVE n < Len(queue)
      <3>1. rest \in Seq(W) /\ rest # <<>>
        BY <1>5, <1>4, <2>3
      <3>2. Len(rest) # 0 /\ Len(rest) \in Nat
        BY <3>1, EmptySeq, LenProperties
      <3>3. Len(queue) \in Nat
        BY LenProperties
      <3> QED BY <1>2, <1>4, <3>2, <3>3
    <2> QED BY <1>5, <1>2, <1>4, <1>10, <2>2, <2>3
  <1>11. active' \union ToSet(waiting') = running \union ToSet(queue)
    BY <1>5, <1>4
  <1>12. active' \in SUBSET W /\ waiting' \in Seq(W)
    BY <1>5, <1>4, <1>6
  <1> QED BY <1>5, <1>7, <1>9, <1>10, <1>11, <1>12

\* The slots of the executions in W: nobody twice, nobody both waiting and served.
SlotsInv(W) ==
  /\ ceiling \in Ceilings
  /\ active \in SUBSET W /\ IsFiniteSet(active)
  /\ waiting \in Seq(W) /\ Distinct(waiting) /\ active \intersect ToSet(waiting) = {}
  /\ NoIdleSlot

Held == active \union ToSet(waiting)
KeepsCeiling == active' \ active # {} => Cardinality(active') <= ceiling'

\* Whatever resumes with a queue of distinct others keeps the slots in order.
LEMMA ResumedInOrder ==
  ASSUME NEW W, SlotsInv(W), NEW running \in SUBSET W, running \subseteq active,
         NEW queue \in Seq(W), Distinct(queue), running \intersect ToSet(queue) = {},
         NEW c \in Ceilings, Resumes(running, queue, c)
  PROVE  SlotsInv(W)' /\ Held' = running \union ToSet(queue) /\ KeepsCeiling
  <1>1. IsFiniteSet(running)
    BY FS_Subset DEF SlotsInv
  <1>2. /\ ceiling' = c
        /\ active' \in SUBSET W /\ IsFiniteSet(active') /\ waiting' \in Seq(W)
        /\ active' \union ToSet(waiting') = running \union ToSet(queue)
        /\ active' # running => Cardinality(active') <= c
        /\ Distinct(waiting') /\ active' \intersect ToSet(waiting') = {}
        /\ waiting' # <<>> => Cardinality(active') >= c
    BY <1>1, Resumed
  <1> QED BY <1>2 DEF SlotsInv, NoIdleSlot, Held, KeepsCeiling

LEMMA SetCeilingInOrder ==
  ASSUME NEW W, SlotsInv(W), NEW n \in Int, SetCeiling(n)
  PROVE  SlotsInv(W)' /\ Held' = Held /\ KeepsCeiling
  BY ClampInBounds, ResumedInOrder DEF SlotsInv, SetCeiling, Held

LEMMA EnterInOrder ==
  ASSUME NEW W, SlotsInv(W), NEW n \in Int, NEW w \in W, w \notin Held, EnterUnder(w, n)
  PROVE  SlotsInv(W)' /\ Held' = Held \union {w} /\ KeepsCeiling
  <1> DEFINE queue == Append(waiting, w)
  <1>1. queue \in Seq(W) /\ ToSet(queue) = ToSet(waiting) \union {w} /\ Distinct(queue)
    BY Joins DEF SlotsInv, Held
  <1>2. Resumes(active, queue, Clamp(n)) /\ Clamp(n) \in Ceilings
    BY ClampInBounds DEF EnterUnder
  <1> HIDE DEF queue
  <1>3. active \in SUBSET W /\ active \intersect ToSet(queue) = {}
    BY <1>1 DEF SlotsInv, Held
  <1>4. SlotsInv(W)' /\ Held' = active \union ToSet(queue) /\ KeepsCeiling
    BY <1>1, <1>2, <1>3, ResumedInOrder
  <1> QED BY <1>1, <1>4 DEF Held

LEMMA LeaveInOrder ==
  ASSUME NEW W, SlotsInv(W), NEW w \in active, Leave(w)
  PROVE  SlotsInv(W)' /\ Held' = Held \ {w} /\ KeepsCeiling
  <1>1. /\ active \ {w} \in SUBSET W /\ active \ {w} \subseteq active
        /\ (active \ {w}) \intersect ToSet(waiting) = {} /\ w \notin ToSet(waiting)
    BY DEF SlotsInv
  <1>2. SlotsInv(W)' /\ Held' = (active \ {w}) \union ToSet(waiting) /\ KeepsCeiling
    BY <1>1, ResumedInOrder DEF SlotsInv, Leave
  <1> QED BY <1>1, <1>2 DEF Held

LEMMA ReenterInOrder ==
  ASSUME NEW W, SlotsInv(W), NEW w \in active, Reenter(w)
  PROVE  SlotsInv(W)' /\ Held' = Held /\ KeepsCeiling
  <1> DEFINE queue == Append(waiting, w)
  <1>1. w \in W /\ w \notin ToSet(waiting)
    BY DEF SlotsInv
  <1>2. queue \in Seq(W) /\ ToSet(queue) = ToSet(waiting) \union {w} /\ Distinct(queue)
    BY <1>1, Joins DEF SlotsInv
  <1>3. Resumes(active \ {w}, queue, ceiling) /\ ceiling \in Ceilings
    BY DEF Reenter, SlotsInv
  <1> HIDE DEF queue
  <1>4. /\ active \ {w} \in SUBSET W /\ active \ {w} \subseteq active
        /\ (active \ {w}) \intersect ToSet(queue) = {}
    BY <1>2 DEF SlotsInv
  <1>5. SlotsInv(W)' /\ Held' = (active \ {w}) \union ToSet(queue) /\ KeepsCeiling
    BY <1>2, <1>3, <1>4, ResumedInOrder
  <1> QED BY <1>2, <1>5 DEF Held

LEMMA RestartInOrder ==
  ASSUME NEW W, NEW n \in Int, SlotsRestart(n)
  PROVE  SlotsInv(W)' /\ Held' = {} /\ KeepsCeiling
  <1>1. ceiling' \in Ceilings /\ active' = {} /\ waiting' = <<>>
    BY ClampInBounds DEF SlotsRestart
  <1>2. <<>> \in Seq(W) /\ ToSet(<<>>) = {} /\ Distinct(<<>>)
    BY DEF ToSet, Distinct
  <1> QED BY <1>1, <1>2, FS_EmptySet DEF SlotsInv, NoIdleSlot, Held, KeepsCeiling

LEMMA IdleInOrder ==
  ASSUME NEW W, SlotsInv(W), UNCHANGED slots
  PROVE  SlotsInv(W)' /\ Held' = Held /\ KeepsCeiling
  BY DEF SlotsInv, NoIdleSlot, Held, KeepsCeiling, slots

--------------------------------------------------------------------------------
(* Grading *)

Executions == Jobs \X Questions

\* Who holds or waits for a slot is exactly who is in executeAndJudge.
SlotsOfTasks == \A j \in Jobs, q \in Questions : <<j, q>> \in Held <=> task[j][q].at = "slot"

\* The coordinator runs one job at a time.
OneJob == \A i, j \in Jobs : job[i].at # "idle" /\ job[j].at # "idle" => i = j

\* What the tasks of a job can be before it has started them.
NotYetStarted ==
  \A j \in Jobs, q \in Questions :
    /\ job[j].at = "finds" => task[j][q].at = "none"
    /\ job[j].at = "marks" => task[j][q].at \in {"none", "read"}
    /\ job[j].at = "marks" /\ task[j][q].at = "none" => task[j][q].code = 0

\* Nobody has code of a submission still to come.
CodeIsOld ==
  /\ \A q \in Questions : code[q] <= submitted
  /\ \A j \in Jobs, q \in Questions : task[j][q].code <= submitted

\* Unless a job was abandoned, its tasks end before it does.
NoOrphans ==
  abandoned = {} => \A j \in Jobs, q \in Questions : task[j][q].at # "none" => job[j].at # "idle"

\* Once the scoreboard is synchronised, nothing is left that would write a verdict.
NobodyWrites == settled => \A j \in Jobs, q \in Questions : task[j][q].at \in {"none", "read"}

JobsInv == OneJob /\ NotYetStarted /\ CodeIsOld /\ NoOrphans /\ NobodyWrites
Promises == ScoreNeedsVerdict /\ NothingStranded /\ VerdictIsOfCode /\ BoardIsCurrent
IInv == TypeOK /\ SlotsInv(Executions) /\ SlotsOfTasks /\ JobsInv /\ Promises

--------------------------------------------------------------------------------
LEMMA Numbers ==
  /\ Cases \in Nat /\ Cases > 0 /\ MaxRetries \in Nat /\ MaxSubmissions \in Nat /\ MaxFailures \in Nat
  /\ \A n \in Ceiling : n \in Int
  BY CasesAssumption, CeilingAssumption, BoundsAssumption

LEMMA NoTaskIsTask == NoTask \in Tasks /\ NoTask.at = "none" /\ NoTask.code = 0
  BY Numbers DEF NoTask, Tasks, TaskPcs, Versions

LEMMA ReadingIsTask ==
  ASSUME NEW v \in Versions
  PROVE  Reading(v) \in Tasks /\ Reading(v).at = "read" /\ Reading(v).code = v
  <1>1. "read" \in TaskPcs
    BY DEF TaskPcs
  <1> QED BY <1>1, NoTaskIsTask DEF Reading, Tasks

\* A task that goes on somewhere else.
LEMMA Moved ==
  ASSUME NEW t \in Tasks, NEW place \in TaskPcs
  PROVE  /\ [t EXCEPT !.at = place] \in Tasks
         /\ [t EXCEPT !.at = place].at = place /\ [t EXCEPT !.at = place].code = t.code
  BY DEF Tasks

LEMMA InitInv == Init => IInv
  <1> SUFFICES ASSUME Init PROVE IInv
    OBVIOUS
  <1>1. SlotsInv(Executions) /\ Held = {}
    <2>1. ceiling \in Ceilings /\ active = {} /\ waiting = <<>>
      BY Numbers, ClampInBounds DEF Init
    <2>2. <<>> \in Seq(Executions) /\ ToSet(<<>>) = {} /\ Distinct(<<>>)
      BY DEF ToSet, Distinct
    <2> QED BY <2>1, <2>2, FS_EmptySet DEF SlotsInv, NoIdleSlot, Held
  <1>2. TypeOK
    <2>1. NoJob \in JobStates
      BY DEF NoJob, JobStates, JobPcs
    <2>2. /\ code \in [Questions -> Versions] /\ score \in [Questions -> Versions]
          /\ status \in [Questions -> Statuses] /\ submitted \in Versions
          /\ \A q \in Questions : code[q] = 0 => status[q] = "Pending" /\ score[q] = 0
      BY Numbers DEF Init, Versions, Statuses
    <2>3. board \in Boards
      BY Numbers DEF Init, Boards, Versions
    <2>4. job \in [Jobs -> JobStates] /\ task \in [Jobs -> [Questions -> Tasks]]
      BY <2>1, NoTaskIsTask DEF Init
    <2>5. ceiling \in Ceilings /\ active \subseteq Jobs \X Questions /\ waiting \in Seq(Jobs \X Questions)
      BY <1>1 DEF SlotsInv, Executions
    <2>6. failures \in 0..MaxFailures
      BY Numbers DEF Init
    <2>7. slipped \subseteq Questions /\ abandoned \subseteq Questions /\ settled \in BOOLEAN
      BY DEF Init
    <2> QED BY <2>2, <2>3, <2>4, <2>5, <2>6, <2>7 DEF TypeOK
  <1>3. SlotsOfTasks
    BY <1>1, NoTaskIsTask DEF Init, SlotsOfTasks
  <1>4. JobsInv
    BY NoTaskIsTask DEF Init, JobsInv, OneJob, NotYetStarted, CodeIsOld, NoOrphans, NobodyWrites, NoJob
  <1>5. Promises
    BY NoTaskIsTask DEF Init, Promises, ScoreNeedsVerdict, NothingStranded, VerdictIsOfCode, BoardIsCurrent, NoJob
  <1> QED BY <1>1, <1>2, <1>3, <1>4, <1>5 DEF IInv

--------------------------------------------------------------------------------
(* Steps that leave the tasks alone *)

LEMMA SubmitsInv ==
  ASSUME IInv, NEW q \in Questions, Submits(q)
  PROVE  IInv' /\ KeepsCeiling
  <1>1. SlotsInv(Executions)' /\ Held' = Held /\ KeepsCeiling
    BY IdleInOrder DEF IInv, Submits
  <1>2. TypeOK'
    BY Numbers DEF IInv, TypeOK, Submits, Versions, history, slots
  <1>3. SlotsOfTasks'
    BY <1>1 DEF IInv, SlotsOfTasks, Submits
  <1>4. JobsInv'
    <2>1. CodeIsOld'
      <3>1. submitted \in Nat /\ \A j \in Jobs, p \in Questions : task[j][p].code \in Nat
        BY Numbers DEF IInv, TypeOK, Versions, Tasks
      <3>2. code \in [Questions -> Nat]
        BY Numbers DEF IInv, TypeOK, Versions
      <3> QED BY <3>1, <3>2 DEF IInv, JobsInv, CodeIsOld, Submits
    <2> QED BY <2>1 DEF IInv, Submits, history, JobsInv, OneJob, NotYetStarted, NoOrphans, NobodyWrites
  <1>5. Promises'
    <2>1. UNCHANGED <<status, score, board, job, task, slipped, abandoned, settled>>
      BY DEF Submits, history
    <2>2. ScoreNeedsVerdict' /\ NothingStranded' /\ BoardIsCurrent'
      BY <2>1 DEF IInv, Promises, ScoreNeedsVerdict, NothingStranded, BoardIsCurrent, BeingJudged
    <2>3. \A p \in Questions : code'[p] = IF p = q THEN submitted + 1 ELSE code[p]
      BY DEF IInv, TypeOK, Submits
    <2>4. \A j \in Jobs : task[j][q].code # submitted + 1
      <3>1. submitted \in Nat /\ \A j \in Jobs : task[j][q].code \in Nat /\ task[j][q].code <= submitted
        BY Numbers DEF IInv, TypeOK, Versions, Tasks, JobsInv, CodeIsOld
      <3> QED BY <3>1
    <2>5. VerdictIsOfCode'
      BY <2>1, <2>3, <2>4 DEF IInv, Promises, VerdictIsOfCode, At
    <2> QED BY <2>2, <2>5 DEF Promises
  <1> QED BY <1>1, <1>2, <1>3, <1>4, <1>5 DEF IInv

LEMMA DeletesInv ==
  ASSUME IInv, NEW S \in SUBSET Questions, Deletes(S)
  PROVE  IInv' /\ KeepsCeiling
  <1>1. SlotsInv(Executions)' /\ Held' = Held /\ KeepsCeiling
    BY IdleInOrder DEF IInv, Deletes
  <1>2. TypeOK'
    <2>1. /\ code' \in [Questions -> Versions] /\ score' \in [Questions -> Versions]
          /\ status' \in [Questions -> Statuses]
          /\ \A q \in Questions : code'[q] = 0 => status'[q] = "Pending" /\ score'[q] = 0
      BY Numbers DEF IInv, TypeOK, Deletes, Versions, Statuses
    <2> QED BY <2>1 DEF IInv, TypeOK, Deletes, slots
  <1>3. SlotsOfTasks'
    BY <1>1 DEF IInv, SlotsOfTasks, Deletes
  <1>4. JobsInv'
    BY Numbers DEF IInv, TypeOK, Versions, Deletes,
                   JobsInv, OneJob, NotYetStarted, CodeIsOld, NoOrphans, NobodyWrites
  <1>5. Promises'
    BY Numbers DEF IInv, TypeOK, Tasks, Versions, Deletes, At, BeingJudged,
                   Promises, ScoreNeedsVerdict, NothingStranded, VerdictIsOfCode, BoardIsCurrent
  <1> QED BY <1>1, <1>2, <1>3, <1>4, <1>5 DEF IInv

LEMMA MachineReportsInv ==
  ASSUME IInv, MachineReports
  PROVE  IInv' /\ KeepsCeiling
  <1>1. SlotsInv(Executions)' /\ Held' = Held /\ KeepsCeiling
    BY IdleInOrder DEF IInv, MachineReports
  <1>2. TypeOK'
    <2>1. board' \in Boards
      BY Numbers DEF MachineReports, Boards, Versions
    <2> QED BY <2>1 DEF IInv, TypeOK, MachineReports, rows, slots, history
  <1>3. SlotsOfTasks' /\ JobsInv'
    BY <1>1 DEF IInv, SlotsOfTasks, MachineReports, rows, history,
                JobsInv, OneJob, NotYetStarted, CodeIsOld, NoOrphans, NobodyWrites
  <1>4. Promises'
    BY DEF IInv, MachineReports, rows, history, At, BeingJudged,
           Promises, ScoreNeedsVerdict, NothingStranded, VerdictIsOfCode, BoardIsCurrent
  <1> QED BY <1>1, <1>2, <1>3, <1>4 DEF IInv

LEMMA SetsCeilingInv ==
  ASSUME IInv, NEW n \in Ceiling, SetsCeiling(n)
  PROVE  IInv' /\ KeepsCeiling
  <1>1. SlotsInv(Executions)' /\ Held' = Held /\ KeepsCeiling
    BY Numbers, SetCeilingInOrder DEF IInv, SetsCeiling
  <1>2. TypeOK'
    BY <1>1 DEF IInv, TypeOK, SlotsInv, Executions, SetsCeiling, rows, history
  <1>3. SlotsOfTasks' /\ JobsInv'
    BY <1>1 DEF IInv, SlotsOfTasks, SetsCeiling, rows, history,
                JobsInv, OneJob, NotYetStarted, CodeIsOld, NoOrphans, NobodyWrites
  <1>4. Promises'
    BY DEF IInv, SetsCeiling, rows, history, At, BeingJudged,
           Promises, ScoreNeedsVerdict, NothingStranded, VerdictIsOfCode, BoardIsCurrent
  <1> QED BY <1>1, <1>2, <1>3, <1>4 DEF IInv

LEMMA StartsInv ==
  ASSUME IInv, NEW scope \in SUBSET Questions, Starts(scope)
  PROVE  IInv' /\ KeepsCeiling
  <1>1. SlotsInv(Executions)' /\ Held' = Held /\ KeepsCeiling
    BY IdleInOrder DEF IInv, Starts
  <1>2. PICK k \in Free : job' = [job EXCEPT ![k] = [at |-> "finds", scope |-> scope]]
    BY DEF Starts
  <1>3. /\ k \in Jobs /\ \A q \in Questions : task[k][q].at = "none"
        /\ \A j \in Jobs : job[j].at = "idle"
    BY DEF Free, Live, Starts
  <1>4. TypeOK'
    <2>1. [at |-> "finds", scope |-> scope] \in JobStates
      BY DEF JobStates, JobPcs
    <2> QED BY <1>2, <1>3, <2>1 DEF IInv, TypeOK, Starts, rows, slots, history
  <1>5. /\ job'[k].at = "finds"
        /\ \A j \in Jobs \ {k} : job'[j].at = "idle"
    BY <1>2, <1>3 DEF IInv, TypeOK
  <1>6. SlotsOfTasks' /\ JobsInv'
    BY <1>1, <1>3, <1>5 DEF IInv, SlotsOfTasks, Starts, rows, history,
                JobsInv, OneJob, NotYetStarted, CodeIsOld, NoOrphans, NobodyWrites
  <1>7. Promises'
    BY <1>5 DEF IInv, Starts, rows, history, At, BeingJudged,
           Promises, ScoreNeedsVerdict, NothingStranded, VerdictIsOfCode, BoardIsCurrent
  <1> QED BY <1>1, <1>4, <1>6, <1>7 DEF IInv

--------------------------------------------------------------------------------
(* Steps of the job *)

LEMMA FindsInv ==
  ASSUME IInv, NEW j \in Jobs, Finds(j)
  PROVE  IInv' /\ KeepsCeiling
  <1>1. SlotsInv(Executions)' /\ Held' = Held /\ KeepsCeiling
    BY IdleInOrder DEF IInv, Finds
  <1>2. /\ job[j].at = "finds" /\ \A q \in Questions : task[j][q].at = "none"
        /\ \A i \in Jobs \ {j} : job[i].at = "idle"
    BY DEF IInv, Finds, JobsInv, OneJob, NotYetStarted
  <1>3. UNCHANGED <<rows, board, slots, history>>
    BY DEF Finds
  <1>4. CASE job[j].scope \intersect Stored # {}
    <2>1. /\ job' = [job EXCEPT ![j].at = "marks"]
          /\ task' = [task EXCEPT ![j] = [q \in Questions |->
                        IF q \in job[j].scope \intersect Stored THEN Reading(code[q]) ELSE NoTask]]
      BY <1>4 DEF Finds
    <2>2. \A q \in Questions : /\ Reading(code[q]) \in Tasks
                               /\ Reading(code[q]).at = "read" /\ Reading(code[q]).code = code[q]
      BY ReadingIsTask DEF IInv, TypeOK
    <2>3. /\ job' \in [Jobs -> JobStates] /\ job'[j].at = "marks"
          /\ \A i \in Jobs : i # j => job'[i].at = "idle"
      BY <1>2, <2>1 DEF IInv, TypeOK, JobStates, JobPcs
    <2>4. /\ task' \in [Jobs -> [Questions -> Tasks]]
          /\ \A q \in Questions : task'[j][q] = NoTask \/ task'[j][q] = Reading(code[q])
          /\ \A i \in Jobs, q \in Questions : i # j => task'[i][q] = task[i][q]
      BY <2>1, <2>2, NoTaskIsTask DEF IInv, TypeOK
    <2>5. \A q \in Questions :
            /\ task'[j][q].at \in {"none", "read"}
            /\ task'[j][q].at = "none" => task'[j][q].code = 0
            /\ task'[j][q].code \in {0, code[q]}
            /\ \A i \in Jobs : i # j => task'[i][q] = task[i][q]
      BY <2>2, <2>4, NoTaskIsTask
    <2>6. TypeOK'
      BY <1>3, <2>3, <2>4 DEF IInv, TypeOK, rows, slots, history
    <2>7. SlotsOfTasks'
      <3> SUFFICES ASSUME NEW i \in Jobs, NEW q \in Questions
                   PROVE  <<i, q>> \in Held' <=> task'[i][q].at = "slot"
        BY DEF SlotsOfTasks
      <3> QED BY <1>1, <1>2, <2>5 DEF IInv, SlotsOfTasks
    <2>8. JobsInv'
      <3>1. submitted \in Nat
        BY Numbers DEF IInv, TypeOK, Versions
      <3>2. CodeIsOld'
        BY <1>3, <2>5, <3>1 DEF IInv, JobsInv, CodeIsOld, rows
      <3>3. OneJob' /\ NotYetStarted'
        BY <2>3, <2>5 DEF OneJob, NotYetStarted
      <3>4. NoOrphans' /\ NobodyWrites'
        BY <1>2, <1>3, <2>3, <2>5 DEF IInv, history, JobsInv, NoOrphans, NobodyWrites
      <3> QED BY <3>2, <3>3, <3>4 DEF JobsInv
    <2>9. Promises'
      <3>1. ScoreNeedsVerdict' /\ BoardIsCurrent' /\ VerdictIsOfCode'
        BY <1>3, <2>3 DEF IInv, rows, history, Promises, ScoreNeedsVerdict, BoardIsCurrent, VerdictIsOfCode
      <3>2. \A q \in Questions : BeingJudged(q) => BeingJudged(q)'
        BY <1>2, <2>5 DEF BeingJudged
      <3> QED BY <1>3, <3>1, <3>2 DEF IInv, rows, history, Promises, NothingStranded
    <2> QED BY <1>1, <2>6, <2>7, <2>8, <2>9 DEF IInv
  <1>5. CASE job[j].scope \intersect Stored = {}
    <2>1. job' = [job EXCEPT ![j] = NoJob] /\ task' = task
      BY <1>5 DEF Finds
    <2>2. /\ job' \in [Jobs -> JobStates] /\ \A i \in Jobs : job'[i].at = "idle"
      BY <1>2, <2>1 DEF IInv, TypeOK, JobStates, JobPcs, NoJob
    <2>3. TypeOK'
      BY <1>3, <2>1, <2>2 DEF IInv, TypeOK, rows, slots, history
    <2>4. SlotsOfTasks' /\ JobsInv'
      BY <1>1, <1>2, <1>3, <2>1, <2>2 DEF IInv, SlotsOfTasks, rows, history,
                JobsInv, OneJob, NotYetStarted, CodeIsOld, NoOrphans, NobodyWrites
    <2>5. Promises'
      BY <1>3, <2>1, <2>2 DEF IInv, rows, history, At, BeingJudged,
             Promises, ScoreNeedsVerdict, NothingStranded, VerdictIsOfCode, BoardIsCurrent
    <2> QED BY <1>1, <2>3, <2>4, <2>5 DEF IInv
  <1> QED BY <1>4, <1>5

LEMMA MarksInv ==
  ASSUME IInv, NEW j \in Jobs, Marks(j)
  PROVE  IInv' /\ KeepsCeiling
  <1> DEFINE read == {q \in Questions : task[j][q].at = "read"}
             marked == job[j].scope \intersect Stored
  <1>1. SlotsInv(Executions)' /\ Held' = Held /\ KeepsCeiling
    BY IdleInOrder DEF IInv, Marks
  <1>2. /\ job[j].at = "marks"
        /\ \A q \in Questions : task[j][q].at \in {"none", "read"}
        /\ \A q \in Questions : task[j][q].at = "none" => task[j][q].code = 0
        /\ \A i \in Jobs : i # j => job[i].at = "idle"
    BY DEF IInv, Marks, JobsInv, OneJob, NotYetStarted
  <1>3. /\ job' = [job EXCEPT ![j].at = "runs"]
        /\ task' = [task EXCEPT ![j] = [q \in Questions |->
                      [task[j][q] EXCEPT !.at = IF @ = "read" THEN "rules" ELSE @]]]
        /\ status' = [q \in Questions |-> IF q \in marked THEN "Judging" ELSE status[q]]
        /\ slipped' = (slipped \union marked) \ read
        /\ settled' = FALSE
        /\ UNCHANGED <<code, score, submitted, board, slots, abandoned, failures>>
    BY DEF Marks
  <1>4. /\ job' \in [Jobs -> JobStates] /\ job'[j].at = "runs"
        /\ \A i \in Jobs : i # j => job'[i].at = "idle"
    BY <1>2, <1>3 DEF IInv, TypeOK, JobStates, JobPcs
  <1>5. \A q \in Questions :
          LET t == [task[j][q] EXCEPT !.at = IF @ = "read" THEN "rules" ELSE @] IN
          /\ t \in Tasks /\ t.code = task[j][q].code
          /\ t.at = IF q \in read THEN "rules" ELSE "none"
    <2> TAKE q \in Questions
    <2>1. task[j][q] \in Tasks /\ task[j][q].at \in {"none", "read"}
      BY <1>2 DEF IInv, TypeOK
    <2>2. PICK place \in TaskPcs : /\ place = IF task[j][q].at = "read" THEN "rules" ELSE task[j][q].at
                                  /\ place = IF q \in read THEN "rules" ELSE "none"
      BY <2>1 DEF TaskPcs
    <2> QED BY <2>1, <2>2, Moved
  <1>6. /\ task' \in [Jobs -> [Questions -> Tasks]]
        /\ \A q \in Questions :
             /\ q \in read => task'[j][q].at = "rules"
             /\ q \notin read => task'[j][q].at = "none"
             /\ task'[j][q].code = task[j][q].code
             /\ \A i \in Jobs : i # j => task'[i][q] = task[i][q]
    BY <1>3, <1>5 DEF IInv, TypeOK
  <1>7. marked \subseteq Questions /\ \A q \in marked : code[q] # 0
    BY DEF Stored
  <1> HIDE DEF marked
  <1>8. TypeOK'
    <2>1. status' \in [Questions -> Statuses]
      BY <1>3 DEF IInv, TypeOK, Statuses
    <2>2. \A q \in Questions : code'[q] = 0 => status'[q] = "Pending" /\ score'[q] = 0
      BY <1>3, <1>7 DEF IInv, TypeOK
    <2>3. slipped' \subseteq Questions /\ settled' \in BOOLEAN
      BY <1>3, <1>7 DEF IInv, TypeOK
    <2> QED BY <1>3, <1>4, <1>6, <2>1, <2>2, <2>3 DEF IInv, TypeOK, slots
  <1>9. SlotsOfTasks'
    <2> SUFFICES ASSUME NEW i \in Jobs, NEW q \in Questions
                 PROVE  <<i, q>> \in Held' <=> task'[i][q].at = "slot"
      BY DEF SlotsOfTasks
    <2> QED BY <1>1, <1>2, <1>6 DEF IInv, SlotsOfTasks
  <1>10. JobsInv'
    <2>1. OneJob' /\ NotYetStarted' /\ NobodyWrites'
      BY <1>3, <1>4 DEF OneJob, NotYetStarted, NobodyWrites
    <2>2. CodeIsOld'
      BY <1>3, <1>6 DEF IInv, JobsInv, CodeIsOld
    <2>3. NoOrphans'
      BY <1>2, <1>3, <1>4, <1>6 DEF IInv, JobsInv, NoOrphans
    <2> QED BY <2>1, <2>2, <2>3 DEF JobsInv
  <1>11. Promises'
    <2>1. \A q \in Questions : (BeingJudged(q) => BeingJudged(q)') /\ (q \in read => BeingJudged(q)')
      BY <1>2, <1>6 DEF BeingJudged
    <2>2. NothingStranded'
      <3> SUFFICES ASSUME NEW q \in Questions, status'[q] = "Judging", q \notin read
                   PROVE  BeingJudged(q)' \/ q \in slipped' \union abandoned'
        BY <2>1 DEF NothingStranded
      <3>1. CASE q \in marked
        BY <1>3, <3>1
      <3>2. CASE q \notin marked
        BY <1>3, <2>1, <3>2 DEF IInv, Promises, NothingStranded
      <3> QED BY <3>1, <3>2
    <2>3. ScoreNeedsVerdict'
      BY <1>3 DEF IInv, TypeOK, Promises, ScoreNeedsVerdict
    <2>4. VerdictIsOfCode'
      BY <1>2, <1>3, <1>4, <1>6 DEF VerdictIsOfCode, At
    <2> QED BY <1>3, <2>2, <2>3, <2>4 DEF Promises, BoardIsCurrent
  <1> QED BY <1>1, <1>8, <1>9, <1>10, <1>11 DEF IInv

\* The job ends before it has started its tasks, or after they have ended.
LEMMA JobGone ==
  ASSUME IInv, NEW j \in Jobs, job[j].at # "idle",
         \A q \in Questions : task[j][q].at \in {"none", "read"},
         job' = [job EXCEPT ![j] = NoJob],
         task' = [task EXCEPT ![j] = [q \in Questions |-> NoTask]],
         UNCHANGED <<rows, slots, slipped, abandoned>>
  PROVE  /\ SlotsInv(Executions)' /\ SlotsOfTasks' /\ KeepsCeiling
         /\ job' \in [Jobs -> JobStates] /\ task' \in [Jobs -> [Questions -> Tasks]]
         /\ OneJob' /\ NotYetStarted' /\ CodeIsOld' /\ NoOrphans'
         /\ \A i \in Jobs, q \in Questions :
              /\ task'[i][q].at \in {task[i][q].at, "none"}
              /\ abandoned = {} => task'[i][q].at = "none"
         /\ ScoreNeedsVerdict' /\ NothingStranded' /\ VerdictIsOfCode'
  <1>1. SlotsInv(Executions)' /\ Held' = Held /\ KeepsCeiling
    BY IdleInOrder DEF IInv
  <1>2. job' \in [Jobs -> JobStates] /\ \A i \in Jobs : job'[i].at = "idle"
    BY DEF IInv, TypeOK, JobStates, JobPcs, NoJob, JobsInv, OneJob
  <1>3. task' \in [Jobs -> [Questions -> Tasks]]
    BY NoTaskIsTask DEF IInv, TypeOK
  <1>4. \A q \in Questions :
          /\ task'[j][q].at = "none" /\ task'[j][q].code = 0
          /\ \A i \in Jobs : i # j => task'[i][q] = task[i][q]
    BY NoTaskIsTask DEF IInv, TypeOK
  <1>5. SlotsOfTasks'
    <2> SUFFICES ASSUME NEW i \in Jobs, NEW q \in Questions
                 PROVE  <<i, q>> \in Held' <=> task'[i][q].at = "slot"
      BY DEF SlotsOfTasks
    <2> QED BY <1>1, <1>4 DEF IInv, SlotsOfTasks
  <1>6. OneJob' /\ NotYetStarted' /\ VerdictIsOfCode'
    BY <1>2 DEF OneJob, NotYetStarted, VerdictIsOfCode
  <1>7. CodeIsOld'
    <2>1. submitted \in Nat
      BY Numbers DEF IInv, TypeOK, Versions
    <2> QED BY <1>4, <2>1 DEF IInv, JobsInv, CodeIsOld, rows
  <1>8. \A i \in Jobs, q \in Questions :
          /\ task'[i][q].at \in {task[i][q].at, "none"}
          /\ abandoned = {} => task'[i][q].at = "none"
    BY <1>4 DEF IInv, JobsInv, OneJob, NoOrphans
  <1>9. NoOrphans'
    BY <1>8 DEF NoOrphans
  <1>10. ScoreNeedsVerdict'
    BY DEF IInv, Promises, ScoreNeedsVerdict, rows
  <1>11. NothingStranded'
    <2>1. \A q \in Questions : BeingJudged(q) => BeingJudged(q)'
      BY <1>4 DEF BeingJudged
    <2> QED BY <2>1 DEF IInv, Promises, NothingStranded, rows
  <1> QED BY <1>1, <1>2, <1>3, <1>5, <1>6, <1>7, <1>8, <1>9, <1>10, <1>11

LEMMA SyncsInv ==
  ASSUME IInv, NEW j \in Jobs, Syncs(j)
  PROVE  IInv' /\ KeepsCeiling
  <1>1. /\ SlotsInv(Executions)' /\ SlotsOfTasks' /\ KeepsCeiling
        /\ job' \in [Jobs -> JobStates] /\ task' \in [Jobs -> [Questions -> Tasks]]
        /\ OneJob' /\ NotYetStarted' /\ CodeIsOld' /\ NoOrphans'
        /\ \A i \in Jobs, q \in Questions :
             /\ task'[i][q].at \in {task[i][q].at, "none"}
             /\ abandoned = {} => task'[i][q].at = "none"
        /\ ScoreNeedsVerdict' /\ NothingStranded' /\ VerdictIsOfCode'
    BY JobGone DEF Syncs, At
  <1>2. TypeOK'
    <2>1. board' \in Boards
      BY DEF IInv, TypeOK, Syncs, Boards
    <2>2. settled' \in BOOLEAN
      BY DEF Syncs
    <2> QED BY <1>1, <2>1, <2>2 DEF IInv, TypeOK, Syncs, rows, slots
  <1>3. NobodyWrites'
    BY <1>1 DEF NobodyWrites, Syncs
  <1>4. BoardIsCurrent'
    BY DEF BoardIsCurrent, Syncs, rows
  <1> QED BY <1>1, <1>2, <1>3, <1>4 DEF IInv, JobsInv, Promises

LEMMA FailsInv ==
  ASSUME IInv, NEW j \in Jobs, Fails(j)
  PROVE  IInv' /\ KeepsCeiling
  <1>1. job[j].at # "idle" /\ \A q \in Questions : task[j][q].at \in {"none", "read"}
    BY DEF IInv, JobsInv, NotYetStarted, Fails, At
  <1>2. /\ SlotsInv(Executions)' /\ SlotsOfTasks' /\ KeepsCeiling
        /\ job' \in [Jobs -> JobStates] /\ task' \in [Jobs -> [Questions -> Tasks]]
        /\ OneJob' /\ NotYetStarted' /\ CodeIsOld' /\ NoOrphans'
        /\ \A i \in Jobs, q \in Questions :
             /\ task'[i][q].at \in {task[i][q].at, "none"}
             /\ abandoned = {} => task'[i][q].at = "none"
        /\ ScoreNeedsVerdict' /\ NothingStranded' /\ VerdictIsOfCode'
    BY <1>1, JobGone DEF Fails
  <1>3. TypeOK'
    BY <1>2, Numbers DEF IInv, TypeOK, Fails, Failing, rows, slots
  <1>4. NobodyWrites' /\ BoardIsCurrent'
    BY <1>2 DEF IInv, JobsInv, Promises, NobodyWrites, BoardIsCurrent, Fails, rows
  <1> QED BY <1>2, <1>3, <1>4 DEF IInv, JobsInv, Promises

--------------------------------------------------------------------------------
(* Steps of a task *)

\* A task that was started goes on with its next call, its slot taken, kept or given back.
LEMMA TaskGoesOn ==
  ASSUME IInv, NEW j \in Jobs, NEW q \in Questions, task[j][q].at \notin {"none", "read"},
         NEW next \in Tasks, next.code = task[j][q].code, next.at \notin {"none", "read"},
         Does(j, q, next),
         SlotsInv(Executions)',
         Held' = IF next.at = "slot" THEN Held \union {<<j, q>>} ELSE Held \ {<<j, q>>},
         UNCHANGED <<rows, board, job, slipped, abandoned, settled>>, failures' \in 0..MaxFailures
  PROVE  IInv'
  <1>1. /\ task' \in [Jobs -> [Questions -> Tasks]]
        /\ \A i \in Jobs, p \in Questions : task'[i][p] = IF i = j /\ p = q THEN next ELSE task[i][p]
    BY DEF IInv, TypeOK, Does
  <1>2. TypeOK'
    BY <1>1 DEF IInv, TypeOK, SlotsInv, Executions, rows
  <1>3. SlotsOfTasks'
    <2> SUFFICES ASSUME NEW i \in Jobs, NEW p \in Questions
                 PROVE  <<i, p>> \in Held' <=> task'[i][p].at = "slot"
      BY DEF SlotsOfTasks
    <2>1. CASE i = j /\ p = q
      BY <1>1, <2>1
    <2>2. CASE ~ (i = j /\ p = q)
      BY <1>1, <2>2 DEF IInv, SlotsOfTasks
    <2> QED BY <2>1, <2>2
  <1>4. JobsInv'
    <2>1. OneJob' /\ NotYetStarted'
      BY <1>1 DEF IInv, JobsInv, OneJob, NotYetStarted
    <2>2. CodeIsOld'
      BY <1>1 DEF IInv, JobsInv, CodeIsOld, rows
    <2>3. NoOrphans' /\ NobodyWrites'
      BY <1>1 DEF IInv, JobsInv, NoOrphans, NobodyWrites
    <2> QED BY <2>1, <2>2, <2>3 DEF JobsInv
  <1>5. Promises'
    <2>1. \A p \in Questions : BeingJudged(p) => BeingJudged(p)'
      BY <1>1 DEF BeingJudged
    <2>2. NothingStranded'
      BY <2>1 DEF IInv, Promises, NothingStranded, rows
    <2>3. VerdictIsOfCode'
      BY <1>1 DEF IInv, Promises, VerdictIsOfCode, rows, At
    <2> QED BY <2>2, <2>3 DEF IInv, Promises, ScoreNeedsVerdict, BoardIsCurrent, rows
  <1> QED BY <1>2, <1>3, <1>4, <1>5 DEF IInv

LEMMA EntersInv ==
  ASSUME IInv, NEW j \in Jobs, NEW q \in Questions, NEW n \in Ceiling, Enters(j, q, n)
  PROVE  IInv' /\ KeepsCeiling
  <1> DEFINE next == [task[j][q] EXCEPT !.at = "slot"]
  <1>1. task[j][q] \in Tasks /\ task[j][q].at = "rules"
    BY DEF IInv, TypeOK, Enters, At
  <1>2. next \in Tasks /\ next.at = "slot" /\ next.code = task[j][q].code
    BY <1>1, Moved DEF TaskPcs
  <1>3. Does(j, q, next) /\ EnterUnder(<<j, q>>, n) /\ UNCHANGED <<rows, board, job, history>>
    BY DEF Enters
  <1> HIDE DEF next
  <1>4. <<j, q>> \in Executions /\ <<j, q>> \notin Held /\ n \in Int
    BY <1>1, Numbers DEF IInv, SlotsOfTasks, Executions
  <1>5. SlotsInv(Executions)' /\ Held' = Held \union {<<j, q>>} /\ KeepsCeiling
    BY <1>3, <1>4, EnterInOrder DEF IInv
  <1>6. UNCHANGED <<slipped, abandoned, settled>> /\ failures' \in 0..MaxFailures
    BY <1>3 DEF IInv, TypeOK, history
  <1>7. UNCHANGED <<rows, board, job, slipped, abandoned, settled>>
    BY <1>3, <1>6
  <1> QED BY <1>1, <1>2, <1>3, <1>5, <1>6, <1>7, TaskGoesOn

LEMMA ThrowsInv ==
  ASSUME IInv, NEW j \in Jobs, NEW q \in Questions, Throws(j, q)
  PROVE  IInv' /\ KeepsCeiling
  <1> DEFINE next == [task[j][q] EXCEPT !.at = "excuses"]
  <1>1. task[j][q] \in Tasks /\ task[j][q].at = "rules"
    BY DEF IInv, TypeOK, Throws, At
  <1>2. next \in Tasks /\ next.at = "excuses" /\ next.code = task[j][q].code
    BY <1>1, Moved DEF TaskPcs
  <1>3. Does(j, q, next) /\ UNCHANGED <<rows, board, job, slots, history>>
    BY DEF Throws
  <1> HIDE DEF next
  <1>4. <<j, q>> \notin Held
    BY <1>1 DEF IInv, SlotsOfTasks
  <1>5. SlotsInv(Executions)' /\ Held' = Held \ {<<j, q>>} /\ KeepsCeiling
    BY <1>3, <1>4, IdleInOrder DEF IInv
  <1>6. UNCHANGED <<slipped, abandoned, settled>> /\ failures' \in 0..MaxFailures
    BY <1>3 DEF IInv, TypeOK, history
  <1>7. UNCHANGED <<rows, board, job, slipped, abandoned, settled>>
    BY <1>3, <1>6
  <1> QED BY <1>1, <1>2, <1>3, <1>5, <1>6, <1>7, TaskGoesOn

LEMMA WriteFailsInv ==
  ASSUME IInv, NEW j \in Jobs, NEW q \in Questions, WriteFails(j, q)
  PROVE  IInv' /\ KeepsCeiling
  <1> DEFINE next == [task[j][q] EXCEPT !.at = "excuses"]
  <1>1. task[j][q] \in Tasks /\ task[j][q].at = "writes"
    BY DEF IInv, TypeOK, WriteFails, At
  <1>2. next \in Tasks /\ next.at = "excuses" /\ next.code = task[j][q].code
    BY <1>1, Moved DEF TaskPcs
  <1>3. /\ Does(j, q, next) /\ failures' \in 0..MaxFailures
        /\ UNCHANGED <<rows, board, job, slots, slipped, abandoned, settled>>
    BY Numbers DEF IInv, TypeOK, WriteFails, Failing
  <1> HIDE DEF next
  <1>4. <<j, q>> \notin Held
    BY <1>1 DEF IInv, SlotsOfTasks
  <1>5. SlotsInv(Executions)' /\ Held' = Held \ {<<j, q>>} /\ KeepsCeiling
    BY <1>3, <1>4, IdleInOrder DEF IInv
  <1>6. UNCHANGED <<rows, board, job, slipped, abandoned, settled>>
    BY <1>3
  <1> QED BY <1>1, <1>2, <1>3, <1>5, <1>6, TaskGoesOn

\* Who holds a slot is in executeAndJudge.
LEMMA ActiveIsInSlot ==
  ASSUME IInv, NEW j \in Jobs, NEW q \in Questions, <<j, q>> \in active
  PROVE  task[j][q] \in Tasks /\ task[j][q].at = "slot" /\ <<j, q>> \in Held
  <1>1. <<j, q>> \in Held
    BY DEF Held
  <1> QED BY <1>1 DEF IInv, TypeOK, SlotsOfTasks

LEMMA RetriesInv ==
  ASSUME IInv, NEW j \in Jobs, NEW q \in Questions, Retries(j, q)
  PROVE  IInv' /\ KeepsCeiling
  <1> DEFINE next == [task[j][q] EXCEPT !.tries = @ + 1]
  <1>1. <<j, q>> \in active /\ task[j][q].tries < MaxRetries
    BY DEF Retries
  <1>2. task[j][q] \in Tasks /\ task[j][q].at = "slot" /\ <<j, q>> \in Held
    BY <1>1, ActiveIsInSlot
  <1>3. next \in Tasks /\ next.at = "slot" /\ next.code = task[j][q].code
    <2>1. task[j][q].tries + 1 \in 0..MaxRetries
      BY <1>1, <1>2, Numbers DEF Tasks
    <2> QED BY <1>2, <2>1 DEF Tasks
  <1>4. Does(j, q, next) /\ Reenter(<<j, q>>) /\ UNCHANGED <<rows, board, job, history>>
    BY DEF Retries
  <1> HIDE DEF next
  <1>5. SlotsInv(Executions)' /\ Held' = Held \union {<<j, q>>} /\ KeepsCeiling
    BY <1>1, <1>2, <1>4, ReenterInOrder DEF IInv
  <1>6. UNCHANGED <<slipped, abandoned, settled>> /\ failures' \in 0..MaxFailures
    BY <1>4 DEF IInv, TypeOK, history
  <1>7. UNCHANGED <<rows, board, job, slipped, abandoned, settled>>
    BY <1>4, <1>6
  <1> QED BY <1>2, <1>3, <1>4, <1>5, <1>6, <1>7, TaskGoesOn

LEMMA EndsCaseInv ==
  ASSUME IInv, NEW j \in Jobs, NEW q \in Questions, NEW system \in BOOLEAN, EndsCase(j, q, system)
  PROVE  IInv' /\ KeepsCeiling
  <1> DEFINE next == Judged(j, q, system)
             last == [Judged(j, q, system) EXCEPT !.at = "writes"]
  <1>1. <<j, q>> \in active /\ UNCHANGED <<rows, board, job, history>>
    BY DEF EndsCase
  <1>2. task[j][q] \in Tasks /\ task[j][q].at = "slot" /\ <<j, q>> \in Held
    BY <1>1, ActiveIsInSlot
  <1>3. task[j][q].cases + 1 <= Cases
    <2>1. task[j][q].cases \in Nat /\ Cases \in Nat
      BY <1>2, Numbers DEF Tasks
    <2>2. task[j][q].cases + 1 < Cases \/ task[j][q].cases + 1 = Cases
      BY DEF EndsCase
    <2> QED BY <2>1, <2>2
  <1>4. next \in Tasks /\ next.at = "slot" /\ next.code = task[j][q].code
    <2>1. task[j][q].cases + 1 \in 0..Cases /\ 0 \in 0..MaxRetries
      BY <1>2, <1>3, Numbers DEF Tasks
    <2>2. (task[j][q].broken \/ system) \in BOOLEAN
      BY <1>2 DEF Tasks
    <2> QED BY <1>2, <2>1, <2>2 DEF Tasks, Judged
  <1>5. last \in Tasks /\ last.at = "writes" /\ last.code = task[j][q].code
    BY <1>4, Moved DEF TaskPcs
  <1>6. \/ Does(j, q, next) /\ Reenter(<<j, q>>)
        \/ Does(j, q, last) /\ Leave(<<j, q>>)
    BY DEF EndsCase
  <1> HIDE DEF next, last
  <1>7. UNCHANGED <<slipped, abandoned, settled>> /\ failures' \in 0..MaxFailures
    BY <1>1 DEF IInv, TypeOK, history
  <1>8. UNCHANGED <<rows, board, job, slipped, abandoned, settled>>
    BY <1>1, <1>7
  <1>9. CASE Does(j, q, next) /\ Reenter(<<j, q>>)
    <2>1. SlotsInv(Executions)' /\ Held' = Held \union {<<j, q>>} /\ KeepsCeiling
      BY <1>1, <1>2, <1>9, ReenterInOrder DEF IInv
    <2> QED BY <1>2, <1>4, <1>7, <1>8, <1>9, <2>1, TaskGoesOn
  <1>10. CASE Does(j, q, last) /\ Leave(<<j, q>>)
    <2>1. SlotsInv(Executions)' /\ Held' = Held \ {<<j, q>>} /\ KeepsCeiling
      BY <1>1, <1>2, <1>10, LeaveInOrder DEF IInv
    <2> QED BY <1>2, <1>5, <1>7, <1>8, <1>10, <2>1, TaskGoesOn
  <1> QED BY <1>6, <1>9, <1>10

\* A task ends with its write, of the student's verdict or of a system error.
LEMMA TaskEnds ==
  ASSUME IInv, NEW j \in Jobs, NEW q \in Questions, task[j][q].at \in {"writes", "excuses"},
         NEW verdict \in {"SystemError", "Graded"}, NEW v \in {0, task[j][q].code},
         v = IF verdict = "Graded" THEN task[j][q].code ELSE 0,
         Records(q, verdict, v), Does(j, q, Leaves(j, q)),
         UNCHANGED <<board, job, slots, slipped, abandoned, settled, failures>>
  PROVE  IInv' /\ KeepsCeiling
  <1> DEFINE next == Leaves(j, q)
  <1>1. SlotsInv(Executions)' /\ Held' = Held /\ KeepsCeiling
    BY IdleInOrder DEF IInv
  <1>2. task[j][q].code \in Versions /\ task[j][q].code <= submitted /\ submitted \in Nat
    BY Numbers DEF IInv, TypeOK, Tasks, JobsInv, CodeIsOld, Versions
  <1>3. /\ next \in Tasks /\ next.at = "none" /\ next.code <= submitted
        /\ job[j].at = "runs" => next.code = task[j][q].code
    <2>1. /\ [NoTask EXCEPT !.code = task[j][q].code] \in Tasks
          /\ [NoTask EXCEPT !.code = task[j][q].code].at = "none"
          /\ [NoTask EXCEPT !.code = task[j][q].code].code = task[j][q].code
      BY <1>2, NoTaskIsTask DEF Tasks
    <2> QED BY <1>2, <2>1, NoTaskIsTask DEF Leaves
  <1>4. Does(j, q, next)
    OBVIOUS
  <1> HIDE DEF next
  <1>5. /\ task' \in [Jobs -> [Questions -> Tasks]]
        /\ \A i \in Jobs, p \in Questions : task'[i][p] = IF i = j /\ p = q THEN next ELSE task[i][p]
    BY <1>3, <1>4 DEF IInv, TypeOK, Does
  <1>6. /\ UNCHANGED <<code, submitted>>
        /\ status' = [status EXCEPT ![q] = IF code[q] = 0 THEN @ ELSE verdict]
        /\ score' = [score EXCEPT ![q] = IF code[q] = 0 THEN @ ELSE v]
    BY DEF Records
  <1>7. ~ settled
    BY DEF IInv, JobsInv, NobodyWrites
  <1>8. TypeOK'
    <2>1. verdict \in Statuses /\ v \in Versions
      BY <1>2, Numbers DEF Statuses, Versions
    <2>2. /\ status' \in [Questions -> Statuses] /\ score' \in [Questions -> Versions]
          /\ \A p \in Questions : code'[p] = 0 => status'[p] = "Pending" /\ score'[p] = 0
      BY <1>6, <2>1 DEF IInv, TypeOK
    <2> QED BY <1>5, <1>6, <2>2 DEF IInv, TypeOK, slots
  <1>9. SlotsOfTasks'
    <2> SUFFICES ASSUME NEW i \in Jobs, NEW p \in Questions
                 PROVE  <<i, p>> \in Held' <=> task'[i][p].at = "slot"
      BY DEF SlotsOfTasks
    <2>1. CASE i = j /\ p = q
      BY <1>1, <1>3, <1>5, <2>1 DEF IInv, SlotsOfTasks
    <2>2. CASE ~ (i = j /\ p = q)
      BY <1>1, <1>5, <2>2 DEF IInv, SlotsOfTasks
    <2> QED BY <2>1, <2>2
  <1>10. job[j].at \notin {"finds", "marks"}
    BY DEF IInv, JobsInv, NotYetStarted
  <1>11. JobsInv'
    <2>1. OneJob' /\ NotYetStarted'
      BY <1>5, <1>10 DEF IInv, JobsInv, OneJob, NotYetStarted
    <2>2. CodeIsOld'
      BY <1>3, <1>5, <1>6 DEF IInv, JobsInv, CodeIsOld
    <2>3. NoOrphans' /\ NobodyWrites'
      BY <1>3, <1>5, <1>7 DEF IInv, JobsInv, NoOrphans, NobodyWrites
    <2> QED BY <2>1, <2>2, <2>3 DEF JobsInv
  <1>12. Promises'
    <2>1. ScoreNeedsVerdict'
      BY <1>6 DEF IInv, TypeOK, Promises, ScoreNeedsVerdict
    <2>2. NothingStranded'
      <3> SUFFICES ASSUME NEW p \in Questions, status'[p] = "Judging"
                   PROVE  BeingJudged(p)' \/ p \in slipped' \union abandoned'
        BY DEF NothingStranded
      <3>1. p # q /\ status[p] = "Judging"
        BY <1>6 DEF IInv, TypeOK
      <3>2. BeingJudged(p) => BeingJudged(p)'
        BY <1>5, <3>1 DEF BeingJudged
      <3> QED BY <3>1, <3>2 DEF IInv, Promises, NothingStranded
    <2>3. VerdictIsOfCode'
      <3> SUFFICES ASSUME abandoned' = {}, NEW i \in Jobs, NEW p \in Questions,
                          job'[i].at = "runs", At(i, p, "none")', code'[p] # 0, task'[i][p].code = code'[p]
                   PROVE  status'[p] = "SystemError" \/ (status'[p] = "Graded" /\ score'[p] = code'[p])
        BY DEF VerdictIsOfCode
      <3>1. i = j
        BY DEF IInv, JobsInv, NoOrphans, OneJob
      <3>2. CASE p = q
        BY <1>3, <1>5, <1>6, <3>1, <3>2 DEF IInv, TypeOK
      <3>3. CASE p # q
        BY <1>5, <1>6, <3>3 DEF IInv, Promises, VerdictIsOfCode, At
      <3> QED BY <3>2, <3>3
    <2> QED BY <1>7, <2>1, <2>2, <2>3 DEF Promises, BoardIsCurrent
  <1> QED BY <1>1, <1>8, <1>9, <1>11, <1>12 DEF IInv

LEMMA WritesInv ==
  ASSUME IInv, NEW j \in Jobs, NEW q \in Questions, Writes(j, q)
  PROVE  IInv' /\ KeepsCeiling
  <1>1. /\ task[j][q].at = "writes" /\ Does(j, q, Leaves(j, q))
        /\ UNCHANGED <<board, job, slots, slipped, abandoned, settled, failures>>
    BY DEF Writes, At
  <1>2. CASE Records(q, "SystemError", 0)
    BY <1>1, <1>2, TaskEnds, Zenon
  <1>3. CASE Records(q, "Graded", task[j][q].code)
    BY <1>1, <1>3, TaskEnds
  <1> QED BY <1>2, <1>3 DEF Writes

LEMMA ExcusesInv ==
  ASSUME IInv, NEW j \in Jobs, NEW q \in Questions, Excuses(j, q)
  PROVE  IInv' /\ KeepsCeiling
  <1>1. /\ task[j][q].at = "excuses" /\ Does(j, q, Leaves(j, q)) /\ Records(q, "SystemError", 0)
        /\ UNCHANGED <<board, job, slots, slipped, abandoned, settled, failures>>
    BY DEF Excuses, At
  <1> QED BY <1>1, TaskEnds, Zenon

LEMMA ExcuseFailsInv ==
  ASSUME IInv, NEW j \in Jobs, NEW q \in Questions, ExcuseFails(j, q)
  PROVE  IInv' /\ KeepsCeiling
  <1>1. SlotsInv(Executions)' /\ Held' = Held /\ KeepsCeiling
    BY IdleInOrder DEF IInv, ExcuseFails
  <1>2. /\ task[j][q].at = "excuses" /\ q \in abandoned'
        /\ job' = [job EXCEPT ![j] = NoJob]
        /\ task' = [task EXCEPT ![j] = [p \in Questions |->
                      IF p = q \/ At(j, p, "none") THEN NoTask ELSE task[j][p]]]
        /\ abandoned' = abandoned \union {q} /\ failures' \in 0..MaxFailures
        /\ UNCHANGED <<rows, board, slots, slipped, settled>>
    BY Numbers DEF IInv, TypeOK, ExcuseFails, Failing, At
  <1>3. /\ job' \in [Jobs -> JobStates] /\ job'[j].at = "idle"
        /\ \A i \in Jobs : i # j => job'[i] = job[i]
    BY <1>2 DEF IInv, TypeOK, JobStates, JobPcs, NoJob
  <1>4. /\ task' \in [Jobs -> [Questions -> Tasks]]
        /\ \A i \in Jobs, p \in Questions :
             /\ task'[i][p].code \in {0, task[i][p].code}
             /\ i # j => task'[i][p] = task[i][p]
             /\ ~ (i = j /\ p = q) => task'[i][p].at = task[i][p].at
             /\ i = j /\ p = q => task'[i][p].at = "none"
    BY <1>2, NoTaskIsTask DEF IInv, TypeOK, At
  <1>5. ~ settled
    BY <1>2 DEF IInv, JobsInv, NobodyWrites
  <1>6. TypeOK'
    BY <1>2, <1>3, <1>4 DEF IInv, TypeOK, rows, slots
  <1>7. SlotsOfTasks'
    <2> SUFFICES ASSUME NEW i \in Jobs, NEW p \in Questions
                 PROVE  <<i, p>> \in Held' <=> task'[i][p].at = "slot"
      BY DEF SlotsOfTasks
    <2>1. CASE i = j /\ p = q
      BY <1>1, <1>2, <1>4, <2>1 DEF IInv, SlotsOfTasks
    <2>2. CASE ~ (i = j /\ p = q)
      BY <1>1, <1>4, <2>2 DEF IInv, SlotsOfTasks
    <2> QED BY <2>1, <2>2
  <1>8. JobsInv'
    <2>1. OneJob'
      BY <1>3 DEF IInv, JobsInv, OneJob
    <2>2. NotYetStarted'
      <3> SUFFICES ASSUME NEW i \in Jobs, NEW p \in Questions, i # j
                   PROVE  /\ job'[i].at = "finds" => task'[i][p].at = "none"
                          /\ job'[i].at = "marks" => task'[i][p].at \in {"none", "read"}
                          /\ job'[i].at = "marks" /\ task'[i][p].at = "none" => task'[i][p].code = 0
        BY <1>3 DEF NotYetStarted
      <3>1. job'[i] = job[i] /\ task'[i][p] = task[i][p]
        BY <1>3, <1>4
      <3> QED BY <3>1 DEF IInv, JobsInv, NotYetStarted
    <2>3. CodeIsOld'
      <3>1. submitted \in Nat
        BY Numbers DEF IInv, TypeOK, Versions
      <3> QED BY <1>2, <1>4, <3>1 DEF IInv, JobsInv, CodeIsOld, rows
    <2>4. NoOrphans' /\ NobodyWrites'
      BY <1>2, <1>5 DEF NoOrphans, NobodyWrites
    <2> QED BY <2>1, <2>2, <2>3, <2>4 DEF JobsInv
  <1>9. Promises'
    <2>1. \A p \in Questions : p # q /\ BeingJudged(p) => BeingJudged(p)'
      BY <1>4 DEF BeingJudged
    <2>2. NothingStranded'
      BY <1>2, <2>1 DEF IInv, Promises, NothingStranded, rows
    <2>3. VerdictIsOfCode' /\ BoardIsCurrent'
      BY <1>2, <1>5 DEF VerdictIsOfCode, BoardIsCurrent
    <2>4. ScoreNeedsVerdict'
      BY <1>2 DEF IInv, Promises, ScoreNeedsVerdict, rows
    <2> QED BY <2>2, <2>3, <2>4 DEF Promises
  <1> QED BY <1>1, <1>6, <1>7, <1>8, <1>9 DEF IInv

LEMMA RestartInv ==
  ASSUME IInv, NEW n \in Ceiling, Restart(n)
  PROVE  IInv' /\ KeepsCeiling
  <1>1. SlotsInv(Executions)' /\ Held' = {} /\ KeepsCeiling
    BY Numbers, RestartInOrder DEF Restart
  <1>2. /\ status' = [q \in Questions |-> IF status[q] = "Judging" THEN "Pending" ELSE status[q]]
        /\ score' = [q \in Questions |-> IF status[q] = "Judging" THEN 0 ELSE score[q]]
        /\ job' = [j \in Jobs |-> NoJob] /\ task' = [j \in Jobs |-> [q \in Questions |-> NoTask]]
        /\ slipped' = {} /\ abandoned' = {} /\ failures' \in 0..MaxFailures
        /\ UNCHANGED <<code, submitted, board>>
    BY Numbers DEF IInv, TypeOK, Restart, Failing
  <1>3. settled' => settled /\ \A q \in Questions : status[q] # "Judging"
    BY DEF Restart
  <1>4. /\ job' \in [Jobs -> JobStates] /\ task' \in [Jobs -> [Questions -> Tasks]]
        /\ \A j \in Jobs : job'[j].at = "idle"
        /\ \A j \in Jobs, q \in Questions : task'[j][q].at = "none" /\ task'[j][q].code = 0
    BY <1>2, NoTaskIsTask DEF NoJob, JobStates, JobPcs
  <1>5. TypeOK'
    <2>1. /\ status' \in [Questions -> Statuses] /\ score' \in [Questions -> Versions]
          /\ \A q \in Questions : code'[q] = 0 => status'[q] = "Pending" /\ score'[q] = 0
      BY <1>2, Numbers DEF IInv, TypeOK, Statuses, Versions
    <2>2. settled' \in BOOLEAN
      BY DEF Restart
    <2> QED BY <1>1, <1>2, <1>4, <2>1, <2>2 DEF IInv, TypeOK, SlotsInv, Executions
  <1>6. SlotsOfTasks'
    BY <1>1, <1>4 DEF SlotsOfTasks
  <1>7. JobsInv'
    <2>1. CodeIsOld'
      <3>1. submitted \in Nat
        BY Numbers DEF IInv, TypeOK, Versions
      <3> QED BY <1>2, <1>4, <3>1 DEF IInv, JobsInv, CodeIsOld
    <2> QED BY <1>4, <2>1 DEF JobsInv, OneJob, NotYetStarted, NoOrphans, NobodyWrites
  <1>8. Promises'
    <2>1. ScoreNeedsVerdict' /\ NothingStranded' /\ VerdictIsOfCode'
      BY <1>2, <1>4 DEF IInv, TypeOK, Promises, ScoreNeedsVerdict, NothingStranded, VerdictIsOfCode
    <2>2. BoardIsCurrent'
      <3> SUFFICES ASSUME settled' PROVE status' = status /\ score' = score
        BY <1>2, <1>3 DEF IInv, Promises, BoardIsCurrent
      <3> QED BY <1>2, <1>3 DEF IInv, TypeOK
    <2> QED BY <2>1, <2>2 DEF Promises
  <1> QED BY <1>1, <1>5, <1>6, <1>7, <1>8 DEF IInv

LEMMA StutterInv ==
  ASSUME IInv, UNCHANGED vars
  PROVE  IInv' /\ KeepsCeiling
  <1>1. SlotsInv(Executions)' /\ Held' = Held /\ KeepsCeiling
    BY IdleInOrder DEF IInv, vars
  <1>2. TypeOK' /\ SlotsOfTasks'
    BY <1>1 DEF IInv, TypeOK, SlotsOfTasks, vars, rows, slots, history
  <1>3. JobsInv'
    BY DEF IInv, JobsInv, OneJob, NotYetStarted, CodeIsOld, NoOrphans, NobodyWrites, vars, rows, history
  <1>4. Promises'
    BY DEF IInv, Promises, ScoreNeedsVerdict, NothingStranded, BeingJudged, VerdictIsOfCode, At,
           BoardIsCurrent, vars, rows, history
  <1> QED BY <1>1, <1>2, <1>3, <1>4 DEF IInv

--------------------------------------------------------------------------------
LEMMA NextInv == IInv /\ [Next]_vars => IInv' /\ KeepsCeiling
  <1> SUFFICES ASSUME IInv, [Next]_vars PROVE IInv' /\ KeepsCeiling
    OBVIOUS
  <1>1. ASSUME NEW q \in Questions, Submits(q) \/ Deletes({q}) PROVE IInv' /\ KeepsCeiling
    <2>1. {q} \in SUBSET Questions
      OBVIOUS
    <2> QED BY <1>1, <2>1, SubmitsInv, DeletesInv
  <1>2. CASE Deletes(Questions) \/ MachineReports
    BY <1>2, DeletesInv, MachineReportsInv
  <1>3. ASSUME NEW n \in Ceiling, SetsCeiling(n) \/ Restart(n) PROVE IInv' /\ KeepsCeiling
    BY <1>3, SetsCeilingInv, RestartInv
  <1>4. ASSUME NEW scope \in SUBSET Questions \ {{}}, Starts(scope) PROVE IInv' /\ KeepsCeiling
    BY <1>4, StartsInv
  <1>5. ASSUME NEW j \in Jobs, Finds(j) \/ Marks(j) \/ Syncs(j) \/ Fails(j) PROVE IInv' /\ KeepsCeiling
    BY <1>5, FindsInv, MarksInv, SyncsInv, FailsInv
  <1>6. ASSUME NEW j \in Jobs, NEW q \in Questions, TaskStep(j, q) PROVE IInv' /\ KeepsCeiling
    <2>1. ASSUME NEW n \in Ceiling, Enters(j, q, n) PROVE IInv' /\ KeepsCeiling
      BY <2>1, EntersInv
    <2>2. CASE PistonAnswers(j, q)
      BY <2>2, RetriesInv, EndsCaseInv DEF PistonAnswers
    <2>3. CASE Throws(j, q) \/ Writes(j, q) \/ Excuses(j, q) \/ WriteFails(j, q) \/ ExcuseFails(j, q)
      BY <2>3, ThrowsInv, WritesInv, ExcusesInv, WriteFailsInv, ExcuseFailsInv
    <2> QED BY <1>6, <2>1, <2>2, <2>3 DEF TaskStep
  <1>7. CASE UNCHANGED vars
    BY <1>7, StutterInv
  <1> QED BY <1>1, <1>2, <1>3, <1>4, <1>5, <1>6, <1>7 DEF Next

LEMMA Invariant == Spec => []IInv
  BY InitInv, NextInv, PTL DEF Spec

\* Every variable of the grading of submissions keeps its type.
THEOREM TypeCorrect == Spec => []TypeOK
  <1>1. IInv => TypeOK
    BY DEF IInv
  <1> QED BY <1>1, Invariant, PTL

\* No points stay behind a failure of the system's, a deletion or a restart.
THEOREM ScoreIsBacked == Spec => []ScoreNeedsVerdict
  <1>1. IInv => ScoreNeedsVerdict
    BY DEF IInv, Promises
  <1> QED BY <1>1, Invariant, PTL

\* A row is left at Judging only by a mark no job has read or by a rejected write of the system error.
THEOREM StrandedOnlyByTwo == Spec => []NothingStranded
  <1>1. IInv => NothingStranded
    BY DEF IInv, Promises
  <1> QED BY <1>1, Invariant, PTL

\* What a job sums up is the verdict of the code it judged, wherever that code is still stored.
THEOREM VerdictMatchesCode == Spec => []VerdictIsOfCode
  <1>1. IInv => VerdictIsOfCode
    BY DEF IInv, Promises
  <1> QED BY <1>1, Invariant, PTL

\* Between a synchronisation and the next write the scoreboard is what the rows add up to.
THEOREM BoardMatchesRows == Spec => []BoardIsCurrent
  <1>1. IInv => BoardIsCurrent
    BY DEF IInv, Promises
  <1> QED BY <1>1, Invariant, PTL

\* No execution waits while a slot is free, whatever ceilings are asked for.
THEOREM SlotsAreUsed == Spec => []NoIdleSlot
  <1>1. IInv => NoIdleSlot
    BY DEF IInv, SlotsInv
  <1> QED BY <1>1, Invariant, PTL

\* No execution goes to the backend above the ceiling in force.
THEOREM CeilingIsKept == Spec => CeilingHolds
  <1>1. IInv /\ [Next]_vars => [active' \ active # {} => Cardinality(active') <= ceiling']_slots
    BY NextInv DEF KeepsCeiling
  <1> QED BY <1>1, Invariant, PTL DEF Spec, CeilingHolds

\* A stored score stands for a verdict and the verdict for the code that was judged, whatever jobs,
\* submissions, deletions and restarts cross.
THEOREM ScoresStayDeserved == Spec => []ScoresAreDeserved
  <1>1. ScoreNeedsVerdict /\ VerdictIsOfCode => ScoresAreDeserved
    BY DEF ScoresAreDeserved
  <1> QED BY <1>1, ScoreIsBacked, VerdictMatchesCode, PTL

================================================================================
