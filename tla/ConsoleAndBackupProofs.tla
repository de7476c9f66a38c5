---------------------------- MODULE ConsoleAndBackupProofs ----------------------------
(***************************************************************************)
(* What the operator works with: the download of a copy of the database,   *)
(* and the pages of the console.                                           *)
(*                                                                         *)
(* Backup, for any number of downloads, turns and places in the queue:     *)
(* that the turn passed on goes to somebody who waits needs the queue,     *)
(* that the queue is served needs the count; and a request that fails      *)
(* early leaves no directory because it has none yet.                      *)
(*                                                                         *)
(* Console, for any number of changes, calls and failures.  One page is    *)
(* looked at, so the invariant has a part for each kind of page:           *)
(*   a list      what an answer in flight owes the page: it was read after *)
(*               the last change the page was told of, or a fetch is due;  *)
(*   a report    every poll in flight carries a generation of its own, and *)
(*               only that of the last beginPolling is followed; an answer *)
(*               in flight to a start or restore is no older than the run  *)
(*               shown, unless two of them crossed;                        *)
(*   settings    at most one save is out, and while one is, what was typed *)
(*               last is still the draft; unless calls crossed, what an    *)
(*               answer in flight says is what is in force.                *)
(***************************************************************************)
EXTENDS Backup, Console, TLAPS, FiniteSetTheorems, SequenceTheorems

--------------------------------------------------------------------------------
(* Copies of the database *)

\* Where a request has its directory.
Copying == {"open", "step", "close", "verify", "made", "unwind", "stream", "rm"}
DirIsOfCopy == \A r \in Requests : dir[r] => pc[r] \in Copying \/ r \in litter

BInv == TurnsAreSound /\ NobodyWaitsForNothing /\ DirIsOfCopy

Distinct(q) == \A i, j \in 1..Len(q) : q[i] = q[j] => i = j

--------------------------------------------------------------------------------
(* The queue *)

\* The elements of a sequence stand at its places.
LEMMA Occurs ==
  ASSUME NEW S, NEW q \in Seq(S)
  PROVE  \A w : w \in ToSet(q) <=> \E i \in 1..Len(q) : q[i] = w
  <1>1. DOMAIN q = 1..Len(q)
    BY LenProperties
  <1> QED BY <1>1 DEF ToSet

\* The queue without the request at one of its places.
LEMMA WithoutOne ==
  ASSUME NEW S, NEW q \in Seq(S), Distinct(q), NEW n \in 1..Len(q), NEW rest,
         rest = RemoveAt(q, n)
  PROVE  /\ rest \in Seq(S) /\ Len(rest) = Len(q) - 1
         /\ Distinct(rest)
         /\ ToSet(rest) = ToSet(q) \ {q[n]}
  <1>1. Len(q) \in Nat /\ \A i \in 1..Len(q) : q[i] \in S
    BY LenProperties
  <1>2. /\ rest \in Seq(S) /\ Len(rest) = Len(q) - 1
        /\ \A i \in 1..Len(rest) : rest[i] = IF i < n THEN q[i] ELSE q[i + 1]
    <2> DEFINE before == SubSeq(q, 1, n - 1)
               behind == SubSeq(q, n + 1, Len(q))
    <2>1. /\ before \in Seq(S) /\ Len(before) = n - 1
          /\ \A i \in 1..(n - 1) : before[i] = q[i]
      BY <1>1, SubSeqProperties
    <2>2. /\ behind \in Seq(S) /\ Len(behind) = Len(q) - n
          /\ \A i \in 1..(Len(q) - n) : behind[i] = q[n + i]
      BY <1>1, SubSeqProperties
    <2>3. rest = before \o behind
      BY DEF RemoveAt
    <2> HIDE DEF before, behind
    <2>4. /\ rest \in Seq(S) /\ Len(rest) = Len(before) + Len(behind)
          /\ \A i \in 1..(Len(before) + Len(behind)) :
               rest[i] = IF i <= Len(before) THEN before[i] ELSE behind[i - Len(before)]
      <3>1. before \in Seq(S) /\ behind \in Seq(S)
        BY <2>1, <2>2
      <3> QED BY <2>3, <3>1, ConcatProperties, Zenon
    <2>5. Len(rest) = Len(q) - 1
      BY <1>1, <2>1, <2>2, <2>4
    <2>6. ASSUME NEW i \in 1..Len(rest) PROVE rest[i] = IF i < n THEN q[i] ELSE q[i + 1]
      <3>1. CASE i < n
        <4>1. i <= Len(before) /\ i \in 1..(n - 1)
          BY <1>1, <2>1, <2>5, <3>1
        <4> QED BY <2>1, <2>4, <3>1, <4>1
      <3>2. CASE i >= n
        <4>1. ~ (i <= Len(before)) /\ i - (n - 1) \in 1..(Len(q) - n) /\ n + (i - (n - 1)) = i + 1
          BY <1>1, <2>1, <2>5, <3>2
        <4> QED BY <1>1, <2>1, <2>2, <2>4, <3>2, <4>1
      <3> QED BY <1>1, <3>1, <3>2, <2>5
    <2> QED BY <2>4, <2>5, <2>6
  <1>3. Distinct(rest)
    <2> SUFFICES ASSUME NEW i \in 1..Len(rest), NEW j \in 1..Len(rest), rest[i] = rest[j]
                 PROVE  i = j
      BY DEF Distinct
    <2> DEFINE at(k) == IF k < n THEN k ELSE k + 1
    <2>1. at(i) \in 1..Len(q) /\ at(j) \in 1..Len(q)
      BY <1>1, <1>2
    <2>2. q[at(i)] = q[at(j)]
      BY <1>2
    <2>3. at(i) = at(j)
      BY <2>1, <2>2 DEF Distinct
    <2> QED BY <1>1, <1>2, <2>3
  <1>4. ASSUME NEW w PROVE w \in ToSet(rest) <=> w \in ToSet(q) /\ w # q[n]
    <2>1. /\ w \in ToSet(rest) <=> \E i \in 1..Len(rest) : rest[i] = w
          /\ w \in ToSet(q) <=> \E i \in 1..Len(q) : q[i] = w
      BY <1>2, Occurs
    <2>2. ASSUME NEW i \in 1..Len(rest), rest[i] = w
          PROVE  (\E j \in 1..Len(q) : q[j] = w) /\ w # q[n]
      <3>1. i \in 1..Len(q) /\ i + 1 \in 1..Len(q)
        BY <1>1, <1>2
      <3> QED BY <1>1, <1>2, <2>2, <3>1 DEF Distinct
    <2>3. ASSUME NEW j \in 1..Len(q), q[j] = w, w # q[n]
          PROVE  \E i \in 1..Len(rest) : rest[i] = w
      <3>1. CASE j < n
        <4>1. j \in 1..Len(rest) /\ rest[j] = w
          BY <1>1, <1>2, <2>3, <3>1
        <4> QED BY <4>1
      <3>2. CASE j > n
        <4>1. j - 1 \in 1..Len(rest) /\ rest[j - 1] = w
          BY <1>1, <1>2, <2>3, <3>2
        <4> QED BY <4>1
      <3> QED BY <1>1, <2>3, <3>1, <3>2
    <2> QED BY <2>1, <2>2, <2>3
  <1> QED BY <1>2, <1>3, <1>4

\* The queue without its first.
LEMMA WithoutFirst ==
  ASSUME NEW S, NEW q \in Seq(S), Distinct(q), q # <<>>
  PROVE  /\ Tail(q) \in Seq(S) /\ Len(Tail(q)) = Len(q) - 1 /\ Len(q) \in Nat \ {0}
         /\ Distinct(Tail(q))
         /\ Head(q) \in ToSet(q)
         /\ ToSet(Tail(q)) = ToSet(q) \ {Head(q)}
  <1>1. Len(q) \in Nat \ {0} /\ 1 \in 1..Len(q) /\ Head(q) = q[1]
    BY LenProperties, EmptySeq
  <1>2. Tail(q) = RemoveAt(q, 1)
    BY <1>1 DEF RemoveAt
  <1>3. Tail(q) \in Seq(S) /\ Len(Tail(q)) = Len(q) - 1
    BY <1>1
  <1>4. Distinct(Tail(q)) /\ ToSet(Tail(q)) = ToSet(q) \ {q[1]}
    BY <1>1, <1>2, WithoutOne
  <1>5. q[1] \in ToSet(q)
    BY <1>1, Occurs
  <1> QED BY <1>1, <1>3, <1>4, <1>5

\* The queue with one more at its end.
LEMMA WithLast ==
  ASSUME NEW S, NEW q \in Seq(S), Distinct(q), NEW x \in S, x \notin ToSet(q)
  PROVE  /\ Append(q, x) \in Seq(S) /\ Len(Append(q, x)) = Len(q) + 1
         /\ Distinct(Append(q, x))
         /\ ToSet(Append(q, x)) = ToSet(q) \union {x}
  <1> DEFINE longer == Append(q, x)
  <1>1. Len(q) \in Nat /\ longer \in Seq(S) /\ Len(longer) = Len(q) + 1
    BY LenProperties
  <1>2. \A i \in 1..Len(longer) : longer[i] = IF i = Len(q) + 1 THEN x ELSE q[i]
    BY <1>1
  <1>3. /\ \A w : w \in ToSet(longer) <=> \E i \in 1..Len(longer) : longer[i] = w
        /\ \A w : w \in ToSet(q) <=> \E i \in 1..Len(q) : q[i] = w
    BY <1>1, Occurs
  <1> HIDE DEF longer
  <1>4. Distinct(longer)
    <2> SUFFICES ASSUME NEW i \in 1..Len(longer), NEW j \in 1..Len(longer), longer[i] = longer[j]
                 PROVE  i = j
      BY DEF Distinct
    <2>1. /\ i # Len(q) + 1 => i \in 1..Len(q)
          /\ j # Len(q) + 1 => j \in 1..Len(q)
      BY <1>1
    <2> QED BY <1>2, <1>3, <2>1 DEF Distinct
  <1>5. ASSUME NEW w PROVE w \in ToSet(longer) <=> w \in ToSet(q) \/ w = x
    <2>1. ASSUME NEW i \in 1..Len(longer), longer[i] = w PROVE w = x \/ \E j \in 1..Len(q) : q[j] = w
      <3>1. i # Len(q) + 1 => i \in 1..Len(q)
        BY <1>1
      <3> QED BY <1>2, <2>1, <3>1
    <2>2. Len(q) + 1 \in 1..Len(longer) /\ longer[Len(q) + 1] = x
      BY <1>1, <1>2
    <2>3. \A j \in 1..Len(q) : j \in 1..Len(longer) /\ longer[j] = q[j]
      BY <1>1, <1>2
    <2> QED BY <1>3, <2>1, <2>2, <2>3
  <1> QED BY <1>1, <1>4, <1>5 DEF longer

--------------------------------------------------------------------------------
(* The steps of one request *)

Holding == Pcs \ {"idle", "wait", "over"}

\* What the queue, the turns and the directories owe each other, in the terms the steps change.
LEMMA Known ==
  ASSUME BInv
  PROVE  /\ MaxActive \in Nat \ {0} /\ MaxWaiting \in Nat /\ active \in Nat /\ active <= MaxActive
         /\ pc \in [Requests -> Pcs]
         /\ waiters \in Seq(Requests) /\ Len(waiters) \in Nat /\ Distinct(waiters)
         /\ \A x \in Requests : x \in ToSet(waiters) <=> pc[x] = "wait"
         /\ ToSet(waiters) \subseteq Requests
         /\ \A x \in Requests : x \in Holders <=> pc[x] \in Holding
         /\ IsFiniteSet(Holders) /\ Holders \subseteq Requests /\ active = Cardinality(Holders)
  <1>1. Holders \subseteq Requests /\ IsFiniteSet(Holders)
    BY RequestsAssumption, FS_Subset DEF Holders
  <1>2. BackupTypeOK /\ TurnsAreCounted /\ LineIsOfWaiters
    BY DEF BInv, TurnsAreSound
  <1>3. Len(waiters) \in Nat
    BY <1>2, LenProperties DEF BackupTypeOK
  <1> QED BY <1>1, <1>2, <1>3, LimitsAssumption
          DEF BackupTypeOK, TurnsAreCounted, LineIsOfWaiters, Distinct, Holders, Holding, Pcs, Calls

\* What a step owes to the turns and the queue.
TurnsKept ==
  /\ active' \in 0..MaxActive
  /\ waiters' \in Seq(Requests) /\ Len(waiters') <= MaxWaiting
  /\ pc' \in [Requests -> Pcs]
  /\ TurnsAreCounted' /\ LineIsOfWaiters' /\ NobodyWaitsForNothing'

\* The copies of other requests go on.
Elsewhere(r) == \A x \in Requests \ {r} : pc[x] \in Copying => pc'[x] = pc[x]

\* A request that holds a turn and keeps it.
LEMMA Moving ==
  ASSUME BInv, NEW r \in Requests, NEW to \in Holding, pc[r] \in Holding,
         Goes(r, to), UNCHANGED <<active, waiters>>
  PROVE  TurnsKept /\ Elsewhere(r)
  <1>1. pc' \in [Requests -> Pcs] /\ \A x \in Requests : pc'[x] = IF x = r THEN to ELSE pc[x]
    BY Known DEF Goes, Holding
  <1>2. Holders' = Holders
    BY <1>1 DEF Holders, Holding
  <1>3. \A x \in Requests : pc'[x] = "wait" <=> pc[x] = "wait"
    BY <1>1 DEF Holding
  <1>4. LineIsOfWaiters'
    BY <1>3 DEF LineIsOfWaiters, BInv, TurnsAreSound
  <1>5. TurnsAreCounted' /\ NobodyWaitsForNothing'
    BY <1>2 DEF TurnsAreCounted, NobodyWaitsForNothing, BInv, TurnsAreSound
  <1>6. Elsewhere(r)
    BY <1>1 DEF Elsewhere
  <1> QED BY <1>1, <1>4, <1>5, <1>6 DEF TurnsKept, BInv, TurnsAreSound, BackupTypeOK

\* A request that waits and leaves the queue, refused or aborted.
LEMMA Leaving ==
  ASSUME BInv, NEW r \in Requests, pc[r] = "wait", LeavesLine(r), UNCHANGED active
  PROVE  TurnsKept /\ Elsewhere(r)
  <1>1. PICK n \in 1..Len(waiters) : waiters[n] = r /\ waiters' = RemoveAt(waiters, n) /\ Goes(r, "over")
    BY DEF LeavesLine
  <1>2. /\ waiters' \in Seq(Requests) /\ Len(waiters') = Len(waiters) - 1
        /\ Distinct(waiters')
        /\ ToSet(waiters') = ToSet(waiters) \ {r}
    BY <1>1, Known, WithoutOne
  <1>3. pc' \in [Requests -> Pcs] /\ \A x \in Requests : pc'[x] = IF x = r THEN "over" ELSE pc[x]
    BY <1>1, Known DEF Goes, Pcs
  <1>4. Holders' = Holders
    BY <1>3 DEF Holders
  <1>5. \A x \in Requests : x \in ToSet(waiters') <=> pc'[x] = "wait"
    BY <1>2, <1>3, Known
  <1>6. LineIsOfWaiters'
    BY <1>2, <1>5, Known DEF LineIsOfWaiters, Distinct
  <1>7. active = MaxActive
    <2>1. Len(waiters) # 0
      BY <1>1, Known
    <2> QED BY <2>1, Known, EmptySeq DEF BInv, NobodyWaitsForNothing
  <1>8. TurnsAreCounted' /\ NobodyWaitsForNothing'
    BY <1>4, <1>7 DEF TurnsAreCounted, NobodyWaitsForNothing, BInv, TurnsAreSound
  <1>9. Len(waiters') <= MaxWaiting /\ active' \in 0..MaxActive
    BY <1>2, Known DEF BInv, TurnsAreSound, BackupTypeOK
  <1>10. Elsewhere(r)
    BY <1>3 DEF Elsewhere
  <1> QED BY <1>2, <1>3, <1>6, <1>8, <1>9, <1>10 DEF TurnsKept

\* A turn given back, or passed on to the first that waits.
LEMMA Releasing ==
  ASSUME BInv, NEW r \in Requests, pc[r] \in Holding, Releases(r)
  PROVE  TurnsKept /\ Elsewhere(r)
  <1>1. CASE waiters = <<>>
    <2>1. active' = active - 1 /\ waiters' = waiters /\ Goes(r, "over")
      BY <1>1 DEF Releases
    <2>2. pc' \in [Requests -> Pcs] /\ \A x \in Requests : pc'[x] = IF x = r THEN "over" ELSE pc[x]
      BY <2>1, Known DEF Goes, Pcs
    <2>3. Holders' = Holders \ {r} /\ r \in Holders
      BY <2>2, Known DEF Holders
    <2>4. Cardinality(Holders') = Cardinality(Holders) - 1
      BY <2>3, Known, FS_RemoveElement
    <2>5. Cardinality(Holders) \in Nat \ {0}
      BY <2>3, Known, FS_EmptySet
    <2>6. active' \in 0..MaxActive /\ TurnsAreCounted'
      BY <2>1, <2>4, <2>5, Known DEF TurnsAreCounted
    <2>7. \A x \in Requests : pc'[x] = "wait" <=> pc[x] = "wait"
      BY <2>2 DEF Holding
    <2>8. LineIsOfWaiters' /\ NobodyWaitsForNothing'
      BY <1>1, <2>1, <2>7 DEF LineIsOfWaiters, NobodyWaitsForNothing, BInv, TurnsAreSound
    <2>9. Elsewhere(r)
      BY <2>2 DEF Elsewhere
    <2> QED BY <2>1, <2>2, <2>6, <2>8, <2>9 DEF TurnsKept, BInv, TurnsAreSound, BackupTypeOK
  <1>2. CASE waiters # <<>>
    <2> DEFINE next == Head(waiters)
    <2>1. /\ waiters' = Tail(waiters) /\ active' = active
          /\ pc' = [pc EXCEPT ![r] = "over", ![next] = "turn"]
      BY <1>2 DEF Releases
    <2>2. /\ waiters' \in Seq(Requests) /\ Len(waiters') = Len(waiters) - 1 /\ Distinct(waiters')
          /\ next \in ToSet(waiters) /\ ToSet(waiters') = ToSet(waiters) \ {next}
      BY <1>2, <2>1, Known, WithoutFirst
    <2>3. next \in Requests /\ pc[next] = "wait" /\ next # r
      BY <2>2, Known DEF Holding
    <2> HIDE DEF next
    <2>4. /\ pc' \in [Requests -> Pcs]
          /\ \A x \in Requests : pc'[x] = IF x = next THEN "turn" ELSE IF x = r THEN "over" ELSE pc[x]
      BY <2>1, <2>3, Known DEF Pcs
    <2>5. Holders' = (Holders \ {r}) \union {next} /\ r \in Holders /\ next \notin Holders
      BY <2>3, <2>4, Known DEF Holders
    <2>6. Cardinality(Holders') = Cardinality(Holders)
      <3>1. /\ IsFiniteSet(Holders \ {r}) /\ Cardinality(Holders \ {r}) = Cardinality(Holders) - 1
        BY <2>5, Known, FS_RemoveElement
      <3>2. Cardinality((Holders \ {r}) \union {next}) = Cardinality(Holders \ {r}) + 1
        BY <2>5, <3>1, FS_AddElement
      <3> QED BY <2>5, <3>1, <3>2, Known
    <2>7. \A x \in Requests : x \in ToSet(waiters') <=> pc'[x] = "wait"
      BY <2>2, <2>3, <2>4, Known DEF Holding
    <2>8. LineIsOfWaiters'
      BY <2>2, <2>7, Known DEF LineIsOfWaiters, Distinct
    <2>9. TurnsAreCounted' /\ NobodyWaitsForNothing'
      BY <1>2, <2>1, <2>6 DEF TurnsAreCounted, NobodyWaitsForNothing, BInv, TurnsAreSound
    <2>10. Len(waiters') <= MaxWaiting /\ active' \in 0..MaxActive
      BY <2>1, <2>2, Known DEF BInv, TurnsAreSound, BackupTypeOK
    <2>11. Elsewhere(r)
      BY <2>3, <2>4 DEF Elsewhere, Copying
    <2> QED BY <2>2, <2>4, <2>8, <2>9, <2>10, <2>11 DEF TurnsKept
  <1> QED BY <1>1, <1>2

\* A request that comes.
LEMMA Asking ==
  ASSUME BInv, NEW r \in Requests, Asks(r)
  PROVE  TurnsKept /\ Elsewhere(r)
  <1>1. pc[r] = "idle" /\ r \notin Holders /\ r \notin ToSet(waiters)
    BY Known DEF Asks, Holders
  <1>2. CASE active < MaxActive /\ active' = active + 1 /\ Goes(r, "turn") /\ UNCHANGED waiters
    <2>1. pc' \in [Requests -> Pcs] /\ \A x \in Requests : pc'[x] = IF x = r THEN "turn" ELSE pc[x]
      BY <1>2, Known DEF Goes, Pcs
    <2>2. Holders' = Holders \union {r}
      BY <2>1 DEF Holders
    <2>3. Cardinality(Holders') = Cardinality(Holders) + 1
      BY <1>1, <2>2, Known, FS_AddElement
    <2>4. active' \in 0..MaxActive /\ TurnsAreCounted'
      BY <1>2, <2>3, Known DEF TurnsAreCounted
    <2>5. \A x \in Requests : pc'[x] = "wait" <=> pc[x] = "wait"
      BY <1>1, <2>1
    <2>6. waiters = <<>>
      BY <1>2, Known DEF BInv, NobodyWaitsForNothing
    <2>7. LineIsOfWaiters' /\ NobodyWaitsForNothing'
      BY <1>2, <2>5, <2>6 DEF LineIsOfWaiters, NobodyWaitsForNothing, BInv, TurnsAreSound
    <2>8. Elsewhere(r)
      BY <2>1 DEF Elsewhere
    <2> QED BY <1>2, <2>1, <2>4, <2>7, <2>8 DEF TurnsKept, BInv, TurnsAreSound, BackupTypeOK
  <1>3. CASE /\ active >= MaxActive /\ Len(waiters) < MaxWaiting
             /\ waiters' = Append(waiters, r) /\ Goes(r, "wait") /\ UNCHANGED active
    <2>1. pc' \in [Requests -> Pcs] /\ \A x \in Requests : pc'[x] = IF x = r THEN "wait" ELSE pc[x]
      BY <1>3, Known DEF Goes, Pcs
    <2>2. Holders' = Holders
      BY <1>1, <2>1 DEF Holders
    <2>3. /\ waiters' \in Seq(Requests) /\ Len(waiters') = Len(waiters) + 1 /\ Distinct(waiters')
          /\ ToSet(waiters') = ToSet(waiters) \union {r}
      BY <1>1, <1>3, Known, WithLast
    <2>4. \A x \in Requests : x \in ToSet(waiters') <=> pc'[x] = "wait"
      BY <2>1, <2>3, Known
    <2>5. LineIsOfWaiters'
      BY <2>3, <2>4, Known DEF LineIsOfWaiters, Distinct
    <2>6. TurnsAreCounted' /\ NobodyWaitsForNothing'
      BY <1>3, <2>2, Known DEF TurnsAreCounted, NobodyWaitsForNothing
    <2>7. Len(waiters') <= MaxWaiting /\ active' \in 0..MaxActive
      BY <1>3, <2>3, Known
    <2>8. Elsewhere(r)
      BY <2>1 DEF Elsewhere
    <2> QED BY <2>1, <2>3, <2>5, <2>6, <2>7, <2>8 DEF TurnsKept
  <1>4. CASE Goes(r, "over") /\ UNCHANGED <<active, waiters>>
    <2>1. pc' \in [Requests -> Pcs] /\ \A x \in Requests : pc'[x] = IF x = r THEN "over" ELSE pc[x]
      BY <1>4, Known DEF Goes, Pcs
    <2>2. Holders' = Holders
      BY <1>1, <2>1 DEF Holders
    <2>3. \A x \in Requests : pc'[x] = "wait" <=> pc[x] = "wait"
      BY <1>1, <2>1
    <2>4. LineIsOfWaiters' /\ TurnsAreCounted' /\ NobodyWaitsForNothing'
      BY <1>4, <2>2, <2>3 DEF LineIsOfWaiters, TurnsAreCounted, NobodyWaitsForNothing, BInv, TurnsAreSound
    <2>5. Elsewhere(r)
      BY <2>1 DEF Elsewhere
    <2> QED BY <1>4, <2>1, <2>4, <2>5 DEF TurnsKept, BInv, TurnsAreSound, BackupTypeOK
  <1> QED BY <1>2, <1>3, <1>4 DEF Asks

--------------------------------------------------------------------------------
(* The invariant *)

\* What is left of the type: signals, directories, litter.
Rest ==
  /\ aborted \in [Requests -> BOOLEAN] /\ dir \in [Requests -> BOOLEAN]
  /\ litter \subseteq Requests

LEMMA Together ==
  ASSUME TurnsKept, Rest', DirIsOfCopy'
  PROVE  BInv'
  BY DEF TurnsKept, Rest, BInv, TurnsAreSound, BackupTypeOK

LEMMA Initially == BackupInit => BInv
  <1> SUFFICES ASSUME BackupInit PROVE BInv
    OBVIOUS
  <1>1. Holders = {} /\ Cardinality({}) = 0
    BY FS_EmptySet DEF BackupInit, Holders
  <1>2. ToSet(<<>>) = {} /\ Len(<<>>) = 0 /\ <<>> \in Seq(Requests)
    BY DEF ToSet
  <1>3. BackupTypeOK
    BY <1>2, LimitsAssumption DEF BackupInit, BackupTypeOK, Pcs
  <1>4. LineIsOfWaiters
    BY <1>2 DEF BackupInit, LineIsOfWaiters
  <1> QED BY <1>1, <1>3, <1>4
          DEF BackupInit, BInv, TurnsAreSound, TurnsAreCounted, NobodyWaitsForNothing, DirIsOfCopy

\* A failed or successful rm of a request that gives its turn back.
LEMMA Cleaning ==
  ASSUME BInv, NEW r \in Requests, pc[r] \in Holding, Releases(r), Removes(r)
  PROVE  DirIsOfCopy' /\ dir' \in [Requests -> BOOLEAN] /\ litter' \subseteq Requests
  <1>1. DirIsOfCopy /\ dir \in [Requests -> BOOLEAN] /\ litter \subseteq Requests
    BY DEF BInv, TurnsAreSound, BackupTypeOK
  <1>2. Elsewhere(r)
    BY Releasing
  <1>3. /\ dir' \in [Requests -> BOOLEAN] /\ litter' \subseteq Requests /\ litter \subseteq litter'
        /\ dir'[r] => r \in litter'
        /\ \A x \in Requests \ {r} : dir'[x] = dir[x]
    BY <1>1 DEF Removes
  <1> QED BY <1>1, <1>2, <1>3 DEF DirIsOfCopy, Elsewhere

LEMMA Preserved == BInv /\ [BackupNext]_backupVars => BInv'
  <1> SUFFICES ASSUME BInv, [BackupNext]_backupVars PROVE BInv'
    OBVIOUS
  <1>0. Rest /\ DirIsOfCopy /\ \A x \in Requests : pc[x] \in Pcs
    BY Known DEF BInv, TurnsAreSound, BackupTypeOK, Rest
  <1>1. ASSUME NEW r \in Requests, Asks(r) PROVE BInv'
    <2>1. TurnsKept /\ Elsewhere(r)
      BY <1>1, Asking
    <2>2. Rest'
      BY <1>0, <1>1 DEF Asks, Rest
    <2>3. DirIsOfCopy'
      BY <1>0, <1>1, <2>1 DEF Asks, DirIsOfCopy, Elsewhere, Copying
    <2> QED BY <2>1, <2>2, <2>3, Together
  <1>2. ASSUME NEW r \in Requests, TimesOut(r) PROVE BInv'
    <2>1. TurnsKept /\ Elsewhere(r)
      BY <1>2, Leaving DEF TimesOut
    <2>2. Rest'
      BY <1>0, <1>2 DEF TimesOut, Rest
    <2>3. DirIsOfCopy'
      BY <1>0, <1>2, <2>1 DEF TimesOut, DirIsOfCopy, Elsewhere, Copying
    <2> QED BY <2>1, <2>2, <2>3, Together
  <1>3. ASSUME NEW r \in Requests, Aborts(r) PROVE BInv'
    <2>1. CASE pc[r] = "wait"
      <3>1. TurnsKept /\ Elsewhere(r)
        BY <1>3, <2>1, Leaving DEF Aborts
      <3>2. Rest'
        BY <1>0, <1>3 DEF Aborts, Rest
      <3>3. DirIsOfCopy'
        BY <1>0, <1>3, <2>1, <3>1 DEF Aborts, DirIsOfCopy, Elsewhere, Copying
      <3> QED BY <3>1, <3>2, <3>3, Together
    <2>2. CASE pc[r] # "wait"
      <3>1. pc[r] \in Holding /\ Goes(r, pc[r]) /\ UNCHANGED <<active, waiters, pc>>
        BY <1>0, <1>3, <2>2, Known DEF Aborts, Goes, Holding
      <3>2. TurnsKept
        BY <3>1, Moving
      <3>3. Rest' /\ DirIsOfCopy'
        BY <1>0, <1>3, <3>1 DEF Aborts, Rest, DirIsOfCopy
      <3> QED BY <3>2, <3>3, Together
    <2> QED BY <2>1, <2>2
  <1>4. ASSUME NEW r \in Requests, FailsEarly(r) PROVE BInv'
    <2>1. pc[r] \in Holding /\ pc[r] \notin Copying
      BY <1>4 DEF FailsEarly, Holding, Pcs, Calls, Copying
    <2>2. TurnsKept /\ Elsewhere(r)
      BY <1>4, <2>1, Releasing DEF FailsEarly
    <2>3. Rest'
      BY <1>0, <1>4 DEF FailsEarly, Rest
    <2>4. DirIsOfCopy'
      BY <1>0, <1>4, <2>1, <2>2 DEF FailsEarly, DirIsOfCopy, Elsewhere
    <2> QED BY <2>2, <2>3, <2>4, Together
  <1>5. ASSUME NEW r \in Requests, Begins(r) \/ Looks(r) PROVE BInv'
    <2>1. pc[r] \in Holding /\ pc[r] \notin Copying /\ UNCHANGED <<active, waiters, dir, litter>>
      BY <1>5 DEF Begins, Looks, Holding, Pcs, Calls, Copying
    <2>2. PICK to \in Holding : Goes(r, to)
      BY <1>5 DEF Begins, Looks, Holding, Pcs, Calls
    <2>3. TurnsKept /\ Elsewhere(r)
      BY <2>1, <2>2, Moving
    <2>4. Rest'
      BY <1>0, <1>5 DEF Begins, Looks, Rest
    <2>5. DirIsOfCopy'
      BY <1>0, <2>1, <2>3 DEF DirIsOfCopy, Elsewhere
    <2> QED BY <2>3, <2>4, <2>5, Together
  <1>6. ASSUME NEW r \in Requests, MakesDirectory(r) PROVE BInv'
    <2>1. pc[r] \in Holding
      BY <1>6 DEF MakesDirectory, Holding, Pcs, Calls
    <2>2. PICK to \in Copying : Goes(r, to)
      BY <1>6 DEF MakesDirectory, Copying
    <2>3. to \in Holding
      BY <2>2 DEF Copying, Holding, Pcs, Calls
    <2>4. TurnsKept /\ Elsewhere(r)
      BY <1>6, <2>1, <2>2, <2>3, Moving DEF MakesDirectory
    <2>5. Rest'
      BY <1>0, <1>6 DEF MakesDirectory, Rest
    <2>6. pc'[r] = to
      BY <2>2, Known DEF Goes
    <2>7. DirIsOfCopy'
      BY <1>0, <1>6, <2>2, <2>4, <2>6 DEF MakesDirectory, DirIsOfCopy, Elsewhere, Rest
    <2> QED BY <2>4, <2>5, <2>7, Together
  <1>7. ASSUME NEW r \in Requests, Lands(r) \/ Breaks(r) \/ Streams(r) \/ Delivers(r) PROVE BInv'
    <2>1. pc[r] \in Holding /\ UNCHANGED <<active, waiters, dir, litter>>
      BY <1>7 DEF Lands, Breaks, Streams, Delivers, After, Holding, Pcs, Calls
    <2>2. PICK to \in Copying : Goes(r, to)
      BY <1>7 DEF Lands, Breaks, Streams, Delivers, After, Copying
    <2>3. to \in Holding
      BY <2>2 DEF Copying, Holding, Pcs, Calls
    <2>4. TurnsKept /\ Elsewhere(r)
      BY <2>1, <2>2, <2>3, Moving
    <2>5. Rest'
      BY <1>0, <1>7 DEF Lands, Breaks, Streams, Delivers, Rest
    <2>6. pc'[r] = to
      BY <2>2, Known DEF Goes
    <2>7. DirIsOfCopy'
      BY <1>0, <2>1, <2>2, <2>4, <2>6 DEF DirIsOfCopy, Elsewhere
    <2> QED BY <2>4, <2>5, <2>7, Together
  <1>8. ASSUME NEW r \in Requests, Unwinds(r) \/ CleansUp(r) PROVE BInv'
    <2>1. pc[r] \in Holding /\ Releases(r) /\ Removes(r)
      BY <1>8 DEF Unwinds, CleansUp, Holding, Pcs, Calls
    <2>2. TurnsKept
      BY <2>1, Releasing
    <2>3. DirIsOfCopy' /\ dir' \in [Requests -> BOOLEAN] /\ litter' \subseteq Requests
      BY <2>1, Cleaning
    <2>4. aborted' \in [Requests -> BOOLEAN]
      BY <1>0, <1>8 DEF Unwinds, CleansUp, Rest
    <2> QED BY <2>2, <2>3, <2>4, Together DEF Rest
  <1>9. CASE UNCHANGED backupVars
    BY <1>9 DEF backupVars, BInv, TurnsAreSound, BackupTypeOK, TurnsAreCounted, LineIsOfWaiters,
            NobodyWaitsForNothing, DirIsOfCopy, Holders
  <1> QED BY <1>1, <1>2, <1>3, <1>4, <1>5, <1>6, <1>7, <1>8, <1>9 DEF BackupNext, Works

LEMMA Invariantly == BackupSpec => []BInv
  <1> QED BY Initially, Preserved, PTL DEF BackupSpec

\* Every turn taken is one request's, the queue is that of those who wait, and every variable keeps to
\* its type, however requests come, wait, time out, go away, fail and are served
\* (database-backup.service.ts acquire, release).
THEOREM TurnsStaySound == BackupSpec => []TurnsAreSound
  <1>1. BInv => TurnsAreSound
    BY DEF BInv
  <1> QED BY <1>1, Invariantly, PTL

\* Nobody waits while a turn is free (database-backup.service.ts acquire, release).
THEOREM NoTurnIsIdle == BackupSpec => []NobodyWaitsForNothing
  <1>1. BInv => NobodyWaitsForNothing
    BY DEF BInv
  <1> QED BY <1>1, Invariantly, PTL

\* A copy of the exam is on the disk only while its request works, or because it could not be removed
\* (database-backup.service.ts createSnapshot, admin-backup.controller.ts download).
THEOREM NoCopyStays == BackupSpec => []CopiesAreRemoved
  <1>1. BInv => CopiesAreRemoved
    BY DEF BInv, DirIsOfCopy, CopiesAreRemoved, Holders, Copying
  <1> QED BY <1>1, Invariantly, PTL
--------------------------------------------------------------------------------
(* The console: what is known of a page *)

\* What past ranges over, and the calls.
Pasts == [changes : 0..MaxChanges, failures : Nat, told : Nat, tangled : BOOLEAN, excused : BOOLEAN,
          known : Nat, typed : 1..MaxChanges \union {None}, uploaded : 0..MaxChanges,
          crossed : BOOLEAN]
CallRecords == [kind : Kinds, at : {"sent", "read", "answered"}, number : Nat, run : 0..MaxChanges, got : {None} \union Shape]

RangeInv ==
  /\ page \in Pages /\ data \in Shape /\ shown \in Showable
  /\ calls \subseteq CallRecords /\ IsFiniteSet(calls) /\ Cardinality(calls) <= MaxCalls
  /\ due \in 0..MaxChanges /\ generation \in Nat /\ mounted \in BOOLEAN
  /\ timer \in Timers \union {None}
  /\ drafts \in 1..MaxChanges \union {None}
  /\ past \in Pasts

ListInv == page \in Lists =>
  /\ data = past.changes /\ past.told <= data /\ shown <= data
  /\ \A c \in calls : c.kind = "fetch" /\ (c.at = "sent" \/ (c.at = "answered" /\ c.got \in 0..data))
  /\ ~ past.tangled => \A c, d \in calls : c = d
  /\ ~ past.tangled /\ ~ past.excused /\ due = 0 =>
       /\ calls = {} => shown >= past.told
       /\ \A c \in calls : c.at = "answered" => c.got >= past.told

\* A run that is not over has begun.
Begun(r) == r.over \/ r.run # 0
\* What a call of the report is, and what its answer says.
Serves(c) ==
  /\ c.kind \in {"restore", "start", "poll"} /\ c.at \in {"sent", "answered"}
  /\ c.got # None => Begun(c.got) /\ c.got.run <= data.run
  /\ c.kind = "restore" /\ c.at = "answered" => c.got # None
  /\ c.kind = "start" /\ c.got # None => c.got.run # 0
  /\ c.kind = "poll" => c.run # 0 /\ c.number <= generation /\ (c.got # None => c.got.run = c.run)

\* A poll of the chain that is followed.
Follows(c) == c.kind = "poll" /\ c.number = generation
ServedInv == Begun(data) /\ Begun(shown) /\ past.known <= data.run /\ \A c \in calls : Serves(c)
\* One poll for each generation, and none of the present one while its timer runs.
ChainInv ==
  /\ timer # None => timer.number = generation
  /\ \A c, d \in calls : c.kind = "poll" /\ d.kind = "poll" /\ c.number = d.number => c = d
  /\ \A c \in calls : timer # None => ~ Follows(c)
FollowedInv ==
  mounted /\ ~ shown.over /\ ~ past.excused =>
    timer # None \/ \E c \in calls : c.kind = "restore" \/ Follows(c)
\* The run shown is the last one handed over, it is the one that is polled for, and no older one is out.
LastRunInv ==
  ~ past.tangled =>
    /\ shown.run = past.known
    /\ timer # None => timer.run = shown.run
    /\ \A c \in calls :
         /\ Follows(c) => c.run = shown.run
         /\ c.kind \in {"restore", "start"} /\ c.got # None => c.got.run >= past.known
ReportInv == page = "report" => ServedInv /\ ChainInv /\ FollowedInv /\ LastRunInv

\* No settings, or those in force, or those of a configuration that was replaced.
UpToDate(s) == s = None \/ s.upload # data.upload \/ s = InForce(data)
\* What a call of the settings is; a configuration that was read had been uploaded before.
ServesFile(c) ==
  /\ c.kind \in {"load", "save"} /\ (c.kind = "load" => c.at \in {"sent", "answered"})
  /\ c.kind = "save" => c.number \in 1..MaxChanges
  /\ c.at # "sent" => c.got # None /\ c.got.upload <= past.uploaded
SeenInv ==
  /\ data.upload <= past.uploaded /\ (shown # None => shown.upload <= past.uploaded)
  /\ \A c \in calls : ServesFile(c)
  /\ \A c, d \in calls : c.kind = "save" /\ d.kind = "save" => c = d
\* While a save is out, what was typed last is the draft; what a save has written is in the file.
DraftInv ==
  /\ drafts # None /\ past.typed # None => past.typed = drafts
  /\ past.typed # None /\ ~ past.tangled => drafts = past.typed \/ data.limit = past.typed
  /\ \A c \in calls : c.kind = "save" /\ past.typed # None =>
       /\ drafts = past.typed
       /\ ~ past.tangled => past.typed = c.number /\ (c.at = "answered" => data.limit = c.number)
\* Unless calls crossed there is one at most, and what it answers is up to date; and so is the page as
\* long as that call has changed nothing.
FreshInv ==
  ~ past.crossed =>
    /\ \A c, d \in calls : c = d
    /\ \A c \in calls : c.at = "answered" => UpToDate(c.got)
    /\ (\A c \in calls : c.kind = "save" /\ c.at # "answered") => UpToDate(shown)
KeptInv == ~ past.excused => data.upload = past.uploaded
SettingsInv == page = "settings" => SeenInv /\ DraftInv /\ FreshInv /\ KeptInv

--------------------------------------------------------------------------------
(* Records *)

PastWith(changes, failures, lastTold, tangled, excused, known, typed, uploaded, crossed) ==
  [changes |-> changes, failures |-> failures, told |-> lastTold, tangled |-> tangled, excused |-> excused,
   known |-> known, typed |-> typed, uploaded |-> uploaded, crossed |-> crossed]

\* The history is its fields.
LEMMA PastOf ==
  ASSUME NEW p \in Pasts
  PROVE  /\ p = PastWith(p.changes, p.failures, p.told, p.tangled, p.excused, p.known, p.typed, p.uploaded, p.crossed)
         /\ p.changes \in 0..MaxChanges /\ p.failures \in Nat /\ p.told \in Nat
         /\ p.tangled \in BOOLEAN /\ p.excused \in BOOLEAN /\ p.known \in Nat
         /\ p.typed \in 1..MaxChanges \union {None} /\ p.uploaded \in 0..MaxChanges /\ p.crossed \in BOOLEAN
  BY DEF Pasts, PastWith

LEMMA HappenedSet ==
  ASSUME NEW p \in Pasts, NEW x, NEW y, NEW z, NEW w
  PROVE  [p EXCEPT !.changes = x, !.told = y, !.tangled = z, !.excused = w] =
           PastWith(x, p.failures, y, z, w, p.known, p.typed, p.uploaded, p.crossed)
  <1>1. [p EXCEPT !.changes = x, !.told = y, !.tangled = z, !.excused = w] =
          [[[[p EXCEPT !.changes = x] EXCEPT !.told = y] EXCEPT !.tangled = z] EXCEPT !.excused = w]
    OBVIOUS
  <1>2. p = PastWith(p.changes, p.failures, p.told, p.tangled, p.excused, p.known, p.typed, p.uploaded, p.crossed)
    BY PastOf
  <1>3. [p EXCEPT !.changes = x] = PastWith(x, p.failures, p.told, p.tangled, p.excused, p.known, p.typed, p.uploaded, p.crossed)
    BY <1>2 DEF PastWith
  <1>4. [PastWith(x, p.failures, p.told, p.tangled, p.excused, p.known, p.typed, p.uploaded, p.crossed) EXCEPT !.told = y] =
          PastWith(x, p.failures, y, p.tangled, p.excused, p.known, p.typed, p.uploaded, p.crossed)
    BY DEF PastWith
  <1>5. [PastWith(x, p.failures, y, p.tangled, p.excused, p.known, p.typed, p.uploaded, p.crossed) EXCEPT !.tangled = z] =
          PastWith(x, p.failures, y, z, p.excused, p.known, p.typed, p.uploaded, p.crossed)
    BY DEF PastWith
  <1>6. [PastWith(x, p.failures, y, z, p.excused, p.known, p.typed, p.uploaded, p.crossed) EXCEPT !.excused = w] =
          PastWith(x, p.failures, y, z, w, p.known, p.typed, p.uploaded, p.crossed)
    BY DEF PastWith
  <1> QED BY <1>1, <1>3, <1>4, <1>5, <1>6

LEMMA FetchedSet ==
  ASSUME NEW p \in Pasts, NEW x, NEW y
  PROVE  [p EXCEPT !.tangled = x, !.excused = y] =
           PastWith(p.changes, p.failures, p.told, x, y, p.known, p.typed, p.uploaded, p.crossed)
  <1>1. [p EXCEPT !.tangled = x, !.excused = y] =
          [[p EXCEPT !.tangled = x] EXCEPT !.excused = y]
    OBVIOUS
  <1>2. p = PastWith(p.changes, p.failures, p.told, p.tangled, p.excused, p.known, p.typed, p.uploaded, p.crossed)
    BY PastOf
  <1>3. [p EXCEPT !.tangled = x] = PastWith(p.changes, p.failures, p.told, x, p.excused, p.known, p.typed, p.uploaded, p.crossed)
    BY <1>2 DEF PastWith
  <1>4. [PastWith(p.changes, p.failures, p.told, x, p.excused, p.known, p.typed, p.uploaded, p.crossed) EXCEPT !.excused = y] =
          PastWith(p.changes, p.failures, p.told, x, y, p.known, p.typed, p.uploaded, p.crossed)
    BY DEF PastWith
  <1> QED BY <1>1, <1>3, <1>4

LEMMA FailedSet ==
  ASSUME NEW p \in Pasts, NEW x
  PROVE  [p EXCEPT !.failures = x] =
           PastWith(p.changes, x, p.told, p.tangled, p.excused, p.known, p.typed, p.uploaded, p.crossed)
  <1>1. [p EXCEPT !.failures = x] =
          [p EXCEPT !.failures = x]
    OBVIOUS
  <1>2. p = PastWith(p.changes, p.failures, p.told, p.tangled, p.excused, p.known, p.typed, p.uploaded, p.crossed)
    BY PastOf
  <1>3. [p EXCEPT !.failures = x] = PastWith(p.changes, x, p.told, p.tangled, p.excused, p.known, p.typed, p.uploaded, p.crossed)
    BY <1>2 DEF PastWith
  <1> QED BY <1>1, <1>3

LEMMA ExcusedSet ==
  ASSUME NEW p \in Pasts, NEW x
  PROVE  [p EXCEPT !.excused = x] =
           PastWith(p.changes, p.failures, p.told, p.tangled, x, p.known, p.typed, p.uploaded, p.crossed)
  <1>1. [p EXCEPT !.excused = x] =
          [p EXCEPT !.excused = x]
    OBVIOUS
  <1>2. p = PastWith(p.changes, p.failures, p.told, p.tangled, p.excused, p.known, p.typed, p.uploaded, p.crossed)
    BY PastOf
  <1>3. [p EXCEPT !.excused = x] = PastWith(p.changes, p.failures, p.told, p.tangled, x, p.known, p.typed, p.uploaded, p.crossed)
    BY <1>2 DEF PastWith
  <1> QED BY <1>1, <1>3

LEMMA MountedSet ==
  ASSUME NEW p \in Pasts, NEW x, NEW y
  PROVE  [p EXCEPT !.changes = x, !.excused = y] =
           PastWith(x, p.failures, p.told, p.tangled, y, p.known, p.typed, p.uploaded, p.crossed)
  <1>1. [p EXCEPT !.changes = x, !.excused = y] =
          [[p EXCEPT !.changes = x] EXCEPT !.excused = y]
    OBVIOUS
  <1>2. p = PastWith(p.changes, p.failures, p.told, p.tangled, p.excused, p.known, p.typed, p.uploaded, p.crossed)
    BY PastOf
  <1>3. [p EXCEPT !.changes = x] = PastWith(x, p.failures, p.told, p.tangled, p.excused, p.known, p.typed, p.uploaded, p.crossed)
    BY <1>2 DEF PastWith
  <1>4. [PastWith(x, p.failures, p.told, p.tangled, p.excused, p.known, p.typed, p.uploaded, p.crossed) EXCEPT !.excused = y] =
          PastWith(x, p.failures, p.told, p.tangled, y, p.known, p.typed, p.uploaded, p.crossed)
    BY DEF PastWith
  <1> QED BY <1>1, <1>3, <1>4

LEMMA KnownSet ==
  ASSUME NEW p \in Pasts, NEW x, NEW y
  PROVE  [p EXCEPT !.known = x, !.tangled = y] =
           PastWith(p.changes, p.failures, p.told, y, p.excused, x, p.typed, p.uploaded, p.crossed)
  <1>1. [p EXCEPT !.known = x, !.tangled = y] =
          [[p EXCEPT !.known = x] EXCEPT !.tangled = y]
    OBVIOUS
  <1>2. p = PastWith(p.changes, p.failures, p.told, p.tangled, p.excused, p.known, p.typed, p.uploaded, p.crossed)
    BY PastOf
  <1>3. [p EXCEPT !.known = x] = PastWith(p.changes, p.failures, p.told, p.tangled, p.excused, x, p.typed, p.uploaded, p.crossed)
    BY <1>2 DEF PastWith
  <1>4. [PastWith(p.changes, p.failures, p.told, p.tangled, p.excused, x, p.typed, p.uploaded, p.crossed) EXCEPT !.tangled = y] =
          PastWith(p.changes, p.failures, p.told, y, p.excused, x, p.typed, p.uploaded, p.crossed)
    BY DEF PastWith
  <1> QED BY <1>1, <1>3, <1>4

LEMMA TypedSet ==
  ASSUME NEW p \in Pasts, NEW x, NEW y, NEW z
  PROVE  [p EXCEPT !.changes = x, !.typed = y, !.tangled = z] =
           PastWith(x, p.failures, p.told, z, p.excused, p.known, y, p.uploaded, p.crossed)
  <1>1. [p EXCEPT !.changes = x, !.typed = y, !.tangled = z] =
          [[[p EXCEPT !.changes = x] EXCEPT !.typed = y] EXCEPT !.tangled = z]
    OBVIOUS
  <1>2. p = PastWith(p.changes, p.failures, p.told, p.tangled, p.excused, p.known, p.typed, p.uploaded, p.crossed)
    BY PastOf
  <1>3. [p EXCEPT !.changes = x] = PastWith(x, p.failures, p.told, p.tangled, p.excused, p.known, p.typed, p.uploaded, p.crossed)
    BY <1>2 DEF PastWith
  <1>4. [PastWith(x, p.failures, p.told, p.tangled, p.excused, p.known, p.typed, p.uploaded, p.crossed) EXCEPT !.typed = y] =
          PastWith(x, p.failures, p.told, p.tangled, p.excused, p.known, y, p.uploaded, p.crossed)
    BY DEF PastWith
  <1>5. [PastWith(x, p.failures, p.told, p.tangled, p.excused, p.known, y, p.uploaded, p.crossed) EXCEPT !.tangled = z] =
          PastWith(x, p.failures, p.told, z, p.excused, p.known, y, p.uploaded, p.crossed)
    BY DEF PastWith
  <1> QED BY <1>1, <1>3, <1>4, <1>5

LEMMA DiscardedSet ==
  ASSUME NEW p \in Pasts, NEW x
  PROVE  [p EXCEPT !.typed = x] =
           PastWith(p.changes, p.failures, p.told, p.tangled, p.excused, p.known, x, p.uploaded, p.crossed)
  <1>1. [p EXCEPT !.typed = x] =
          [p EXCEPT !.typed = x]
    OBVIOUS
  <1>2. p = PastWith(p.changes, p.failures, p.told, p.tangled, p.excused, p.known, p.typed, p.uploaded, p.crossed)
    BY PastOf
  <1>3. [p EXCEPT !.typed = x] = PastWith(p.changes, p.failures, p.told, p.tangled, p.excused, p.known, x, p.uploaded, p.crossed)
    BY <1>2 DEF PastWith
  <1> QED BY <1>1, <1>3

LEMMA UploadedSet ==
  ASSUME NEW p \in Pasts, NEW x, NEW y, NEW z
  PROVE  [p EXCEPT !.uploaded = x, !.excused = y, !.typed = z] =
           PastWith(p.changes, p.failures, p.told, p.tangled, y, p.known, z, x, p.crossed)
  <1>1. [p EXCEPT !.uploaded = x, !.excused = y, !.typed = z] =
          [[[p EXCEPT !.uploaded = x] EXCEPT !.excused = y] EXCEPT !.typed = z]
    OBVIOUS
  <1>2. p = PastWith(p.changes, p.failures, p.told, p.tangled, p.excused, p.known, p.typed, p.uploaded, p.crossed)
    BY PastOf
  <1>3. [p EXCEPT !.uploaded = x] =
          PastWith(p.changes, p.failures, p.told, p.tangled, p.excused, p.known, p.typed, x, p.crossed)
    BY <1>2 DEF PastWith
  <1>4. [PastWith(p.changes, p.failures, p.told, p.tangled, p.excused, p.known, p.typed, x, p.crossed)
           EXCEPT !.excused = y] =
          PastWith(p.changes, p.failures, p.told, p.tangled, y, p.known, p.typed, x, p.crossed)
    BY DEF PastWith
  <1>5. [PastWith(p.changes, p.failures, p.told, p.tangled, y, p.known, p.typed, x, p.crossed) EXCEPT !.typed = z] =
          PastWith(p.changes, p.failures, p.told, p.tangled, y, p.known, z, x, p.crossed)
    BY DEF PastWith
  <1> QED BY <1>1, <1>3, <1>4, <1>5

LEMMA CrossedSet ==
  ASSUME NEW p \in Pasts, NEW x
  PROVE  [p EXCEPT !.crossed = x] =
           PastWith(p.changes, p.failures, p.told, p.tangled, p.excused, p.known, p.typed, p.uploaded, x)
  <1>1. p = PastWith(p.changes, p.failures, p.told, p.tangled, p.excused, p.known, p.typed, p.uploaded, p.crossed)
    BY PastOf
  <1> QED BY <1>1 DEF PastWith

LEMMA CrossesTo ==
  ASSUME NEW p \in Pasts, NEW x \in BOOLEAN
  PROVE  LET q == [p EXCEPT !.crossed = x] IN
         /\ q \in Pasts /\ q.changes = p.changes
         /\ q.tangled = p.tangled /\ q.excused = p.excused
         /\ q.typed = p.typed /\ q.uploaded = p.uploaded /\ q.crossed = x
  <1> DEFINE q == [p EXCEPT !.crossed = x]
  <1>1. q = PastWith(p.changes, p.failures, p.told, p.tangled, p.excused, p.known, p.typed, p.uploaded, x)
    BY CrossedSet
  <1> HIDE DEF q
  <1>2. /\ q \in Pasts /\ q.changes = p.changes
        /\ q.tangled = p.tangled /\ q.excused = p.excused
        /\ q.typed = p.typed /\ q.uploaded = p.uploaded /\ q.crossed = x
    BY <1>1, PastOf DEF PastWith, Pasts
  <1> USE DEF q
  <1> QED BY <1>2

\* A call that is sent, that has read, and that is answered.
Read(c, got) == [c EXCEPT !.at = "read", !.got = got]
Answer(c, got) == [c EXCEPT !.at = "answered", !.got = got]
CallWith(kind, at, number, run, got) ==
  [kind |-> kind, at |-> at, number |-> number, run |-> run, got |-> got]

LEMMA CallOf ==
  ASSUME NEW c \in CallRecords
  PROVE  /\ c = CallWith(c.kind, c.at, c.number, c.run, c.got)
         /\ c.kind \in Kinds /\ c.at \in {"sent", "read", "answered"} /\ c.number \in Nat
         /\ c.run \in 0..MaxChanges /\ c.got \in {None} \union Shape
  BY DEF CallRecords, CallWith

LEMMA NewIs ==
  ASSUME NEW kind \in Kinds, NEW number \in Nat, NEW run \in 0..MaxChanges
  PROVE  /\ New(kind, number, run) \in CallRecords
         /\ New(kind, number, run).kind = kind /\ New(kind, number, run).at = "sent"
         /\ New(kind, number, run).number = number /\ New(kind, number, run).run = run
         /\ New(kind, number, run).got = None
  BY DEF CallRecords, New

LEMMA ReadIs ==
  ASSUME NEW c \in CallRecords, NEW got \in {None} \union Shape
  PROVE  /\ Read(c, got) \in CallRecords
         /\ Read(c, got).kind = c.kind /\ Read(c, got).at = "read" /\ Read(c, got).number = c.number
         /\ Read(c, got).run = c.run /\ Read(c, got).got = got
  <1>1. Read(c, got) = [[c EXCEPT !.at = "read"] EXCEPT !.got = got]
    BY DEF Read
  <1>2. c = CallWith(c.kind, c.at, c.number, c.run, c.got)
    BY CallOf
  <1>3. [c EXCEPT !.at = "read"] = CallWith(c.kind, "read", c.number, c.run, c.got)
    BY <1>2 DEF CallWith
  <1>4. Read(c, got) = CallWith(c.kind, "read", c.number, c.run, got)
    BY <1>1, <1>3 DEF CallWith
  <1> QED BY <1>4, CallOf DEF CallWith, CallRecords

LEMMA AnswerIs ==
  ASSUME NEW c \in CallRecords, NEW got \in {None} \union Shape
  PROVE  /\ Answer(c, got) \in CallRecords
         /\ Answer(c, got).kind = c.kind /\ Answer(c, got).at = "answered" /\ Answer(c, got).number = c.number
         /\ Answer(c, got).run = c.run /\ Answer(c, got).got = got
  <1>1. Answer(c, got) = [[c EXCEPT !.at = "answered"] EXCEPT !.got = got]
    BY DEF Answer
  <1>2. c = CallWith(c.kind, c.at, c.number, c.run, c.got)
    BY CallOf
  <1>3. [c EXCEPT !.at = "answered"] = CallWith(c.kind, "answered", c.number, c.run, c.got)
    BY <1>2 DEF CallWith
  <1>4. Answer(c, got) = CallWith(c.kind, "answered", c.number, c.run, got)
    BY <1>1, <1>3 DEF CallWith
  <1> QED BY <1>4, CallOf DEF CallWith, CallRecords

--------------------------------------------------------------------------------
(* Pages, and the calls in flight *)

LEMMA ListsAre ==
  Lists = {"student", "connection", "score", "log", "alerts", "manage", "readiness"}
  BY DEF Lists, Stores

LEMMA ShapeIs ==
  /\ page \in Lists => Shape = 0..MaxChanges /\ Showable = 0..MaxChanges
  /\ page = "report" => Shape = Run /\ Showable = Run
  /\ page = "settings" => Shape = File /\ Showable = File \union {None}
  BY ListsAre DEF Shape, Showable

LEMMA NoneApart == None \notin Nat /\ None \notin Run /\ None \notin File /\ MaxCalls \in Nat /\ MaxChanges \in Nat
  BY NoneAssumption, BoundsAssumption

\* The room there is for calls.
Fits(S) == IsFiniteSet(S) /\ Cardinality(S) <= MaxCalls

LEMMA OneMore ==
  ASSUME NEW S, IsFiniteSet(S), Cardinality(S) < MaxCalls, NEW x
  PROVE  Fits(S \union {x})
  <1>1. IsFiniteSet(S \union {x}) /\ Cardinality(S \union {x}) \in {Cardinality(S), Cardinality(S) + 1}
    BY FS_AddElement
  <1>2. Cardinality(S) \in Nat
    BY FS_CardinalityType
  <1> QED BY <1>1, <1>2, NoneApart DEF Fits

LEMMA OneLess ==
  ASSUME NEW S, Fits(S), NEW c \in S
  PROVE  Fits(S \ {c}) /\ Cardinality(S \ {c}) < MaxCalls
  <1>1. IsFiniteSet(S \ {c}) /\ Cardinality(S \ {c}) = Cardinality(S) - 1
    BY FS_RemoveElement DEF Fits
  <1>2. Cardinality(S) \in Nat
    BY FS_CardinalityType DEF Fits
  <1> QED BY <1>1, <1>2, NoneApart DEF Fits

LEMMA OneReplaced ==
  ASSUME NEW S, Fits(S), NEW c \in S, NEW x
  PROVE  Fits((S \ {c}) \union {x})
  <1>1. Fits(S \ {c}) /\ Cardinality(S \ {c}) < MaxCalls
    BY OneLess
  <1> QED BY <1>1, OneMore DEF Fits

\* There is a number for every call there is room for.
LEMMA NumberIsLeft ==
  ASSUME RangeInv, Room
  PROVE  Unused \in Nat
  <1> DEFINE number == [c \in calls |-> c.number]
             Numbers == {number[c] : c \in calls}
  <1>1. IsFiniteSet(Numbers) /\ Cardinality(Numbers) <= Cardinality(calls)
    <2>1. number \in Surjection(calls, Numbers)
      BY DEF Surjection
    <2>2. IsFiniteSet(calls)
      BY DEF RangeInv
    <2> HIDE DEF number, Numbers
    <2> QED BY <2>1, <2>2, FS_Surjection
  <1>2. IsFiniteSet(0..MaxCalls) /\ Cardinality(0..MaxCalls) = MaxCalls + 1
    BY NoneApart, FS_Interval
  <1>3. ~ (0..MaxCalls \subseteq Numbers)
    <2> SUFFICES ASSUME 0..MaxCalls \subseteq Numbers PROVE FALSE
      OBVIOUS
    <2> HIDE DEF Numbers
    <2>1. Cardinality(0..MaxCalls) <= Cardinality(Numbers)
      BY <1>1, FS_Subset
    <2>2. Cardinality(Numbers) \in Nat /\ Cardinality(calls) \in Nat
      BY <1>1, FS_CardinalityType DEF RangeInv
    <2> QED BY <1>1, <1>2, <2>1, <2>2, NoneApart DEF Room
  <1>4. \E n \in 0..MaxCalls : \A c \in calls : c.number # n
    BY <1>3
  <1> QED BY <1>4 DEF Unused

--------------------------------------------------------------------------------
(* A list *)

LEMMA HappensSays ==
  ASSUME RangeInv, page \in Lists, data \in Nat, NEW op \in DOMAIN Operations, Happens(op)
  PROVE  /\ data' = data + 1 /\ past.changes < MaxChanges /\ past' \in Pasts
         /\ past'.changes = past.changes + 1
         /\ UNCHANGED <<calls, page, timer, generation, drafts, mounted>>
         /\ due' \in 0..MaxChanges
         /\ \E added, known \in BOOLEAN :
              /\ shown' = IF added THEN shown + 1 ELSE shown
              /\ past'.told = IF known THEN data + 1 ELSE past.told
              /\ known /\ ~ added => due' # 0
              /\ due' = 0 => due = 0
              /\ past'.tangled <=> past.tangled \/ (added /\ calls # {})
              /\ past'.excused <=> past.excused \/ (added /\ shown # data)
  <1> DEFINE heard(arrives) == arrives /\ \E e \in Operations[op].announces : Hears(e)
             added(arrives) == arrives /\ \E e \in Operations[op].announces : Adds(e)
             asked(mine) == mine /\ op \in Stores[page].asks
             known(arrives) == arrives /\ Operations[op].announces \intersect
                                 (Stores[page].hears \union Stores[page].adds) # {}
  <1>1. PICK arrives \in BOOLEAN, mine \in BOOLEAN :
          /\ due' = due + (IF heard(arrives) THEN 1 ELSE 0) + (IF asked(mine) THEN 1 ELSE 0)
          /\ due' <= MaxChanges
          /\ shown' = IF added(arrives) THEN shown + 1 ELSE shown
          /\ past' = [past EXCEPT !.changes = past.changes + 1,
                                  !.told = IF known(arrives) \/ asked(mine) THEN data + 1 ELSE past.told,
                                  !.tangled = past.tangled \/ (added(arrives) /\ calls # {}),
                                  !.excused = past.excused \/ (added(arrives) /\ shown # data)]
    BY DEF Happens
  <1>2. known(arrives) => heard(arrives) \/ added(arrives)
    BY DEF Hears, Adds
  <1> DEFINE a == added(arrives)
             k == known(arrives) \/ asked(mine)
             count == past.changes + 1
             lastTold == IF k THEN data + 1 ELSE past.told
             tangled == past.tangled \/ (a /\ calls # {})
             excused == past.excused \/ (a /\ shown # data)
  <1>3. a \in BOOLEAN /\ k \in BOOLEAN /\ tangled \in BOOLEAN /\ excused \in BOOLEAN
    OBVIOUS
  <1>4. k /\ ~ a => due' # 0
    <2>1. k /\ ~ a => heard(arrives) \/ asked(mine)
      BY <1>2
    <2> HIDE DEF heard, asked, k, a
    <2> QED BY <1>1, <2>1 DEF RangeInv
  <1>5. due' \in 0..MaxChanges /\ (due' = 0 => due = 0)
    <2> HIDE DEF heard, asked
    <2> QED BY <1>1 DEF RangeInv
  <1>6. /\ data' = data + 1 /\ past.changes < MaxChanges
        /\ UNCHANGED <<calls, page, timer, generation, drafts, mounted>>
    BY DEF Happens, Unlisted
  <1>7. past' = [past EXCEPT !.changes = count, !.told = lastTold, !.tangled = tangled, !.excused = excused]
    BY <1>1
  <1>8. shown' = IF a THEN shown + 1 ELSE shown
    BY <1>1
  <1>9. /\ lastTold = IF k THEN data + 1 ELSE past.told
        /\ tangled <=> past.tangled \/ (a /\ calls # {})
        /\ excused <=> past.excused \/ (a /\ shown # data)
        /\ count = past.changes + 1
    OBVIOUS
  <1> HIDE DEF a, k, count, lastTold, tangled, excused, heard, added, asked, known
  <1>10. past \in Pasts
    BY DEF RangeInv
  <1>11. count \in 0..MaxChanges /\ lastTold \in Nat
    BY <1>6, <1>9, <1>10, PastOf, NoneApart
  <1>12. past' = PastWith(count, past.failures, lastTold, tangled, excused, past.known, past.typed, past.uploaded, past.crossed)
    BY <1>7, <1>10, HappenedSet
  <1>13. past' \in Pasts /\ past'.changes = count /\ past'.told = lastTold /\ past'.tangled = tangled
         /\ past'.excused = excused
    BY <1>3, <1>10, <1>11, <1>12, PastOf DEF PastWith, Pasts
  <1>14. /\ shown' = IF a THEN shown + 1 ELSE shown
         /\ past'.told = IF k THEN data + 1 ELSE past.told
         /\ k /\ ~ a => due' # 0
         /\ due' = 0 => due = 0
         /\ past'.tangled <=> past.tangled \/ (a /\ calls # {})
         /\ past'.excused <=> past.excused \/ (a /\ shown # data)
    BY <1>3, <1>4, <1>5, <1>8, <1>9, <1>13
  <1> QED BY <1>3, <1>5, <1>6, <1>9, <1>13, <1>14

LEMMA FetchesSays ==
  ASSUME RangeInv, Fetches
  PROVE  /\ Room /\ due' \in 0..MaxChanges
         /\ \E c \in CallRecords : c.kind = "fetch" /\ c.at = "sent" /\ calls' = calls \union {c}
         /\ past' \in Pasts /\ past'.changes = past.changes /\ past'.told = past.told
         /\ past'.tangled <=> calls # {}
         /\ past'.excused <=> past.excused /\ calls # {}
         /\ UNCHANGED <<data, shown, page, timer, generation, drafts, mounted>>
  <1>1. /\ calls' = calls \union {New("fetch", Unused, 0)} /\ Room
        /\ UNCHANGED <<data, shown, page, timer, generation, drafts, mounted>>
    BY DEF Fetches, Unlisted
  <1>2. New("fetch", Unused, 0) \in CallRecords /\ New("fetch", Unused, 0).kind = "fetch"
        /\ New("fetch", Unused, 0).at = "sent"
    BY <1>1, NumberIsLeft, NewIs, NoneApart DEF Kinds
  <1>3. due' \in 0..MaxChanges
    <2>1. due \in 0..MaxChanges /\ (due' = due \/ (due > 0 /\ due' = due - 1))
      BY DEF Fetches, RangeInv
    <2> QED BY <2>1, NoneApart
  <1> DEFINE tangled == calls # {}
             excused == past.excused /\ calls # {}
  <1>4. past' = [past EXCEPT !.tangled = tangled, !.excused = excused]
    BY DEF Fetches
  <1>5. tangled \in BOOLEAN /\ excused \in BOOLEAN
    OBVIOUS
  <1>6. (tangled <=> calls # {}) /\ (excused <=> past.excused /\ calls # {})
    OBVIOUS
  <1> HIDE DEF tangled, excused
  <1>7. past \in Pasts
    BY DEF RangeInv
  <1>8. past' = PastWith(past.changes, past.failures, past.told, tangled, excused, past.known, past.typed, past.uploaded, past.crossed)
    BY <1>4, <1>7, FetchedSet
  <1>9. past' \in Pasts /\ past'.changes = past.changes /\ past'.told = past.told
        /\ past'.tangled = tangled /\ past'.excused = excused
    BY <1>5, <1>7, <1>8, PastOf DEF PastWith, Pasts
  <1> QED BY <1>1, <1>2, <1>3, <1>6, <1>9

\* A failure is counted, and excuses what is missing if it excuses anything.
LEMMA CountsTo ==
  ASSUME past \in Pasts
  PROVE  /\ Counts(past) \in Pasts /\ Counts(past).changes = past.changes /\ Counts(past).told = past.told
         /\ Counts(past).tangled = past.tangled /\ Counts(past).excused = past.excused
         /\ Counts(past).known = past.known /\ Counts(past).typed = past.typed
         /\ Counts(past).uploaded = past.uploaded /\ Counts(past).crossed = past.crossed
  <1>1. Counts(past) = PastWith(past.changes, past.failures + 1, past.told, past.tangled, past.excused,
                                past.known, past.typed, past.uploaded, past.crossed)
    BY FailedSet DEF Counts
  <1>2. past.failures + 1 \in Nat
    BY PastOf
  <1> QED BY <1>1, <1>2, PastOf DEF PastWith, Pasts

LEMMA ExcusesTo ==
  ASSUME NEW p \in Pasts, NEW e \in BOOLEAN
  PROVE  LET q == [p EXCEPT !.excused = e] IN
         /\ q \in Pasts /\ q.changes = p.changes /\ q.told = p.told
         /\ q.tangled = p.tangled /\ q.excused = e
         /\ q.known = p.known /\ q.typed = p.typed /\ q.uploaded = p.uploaded /\ q.crossed = p.crossed
  <1> DEFINE q == [p EXCEPT !.excused = e]
  <1>1. q = PastWith(p.changes, p.failures, p.told, p.tangled, e, p.known, p.typed, p.uploaded, p.crossed)
    BY ExcusedSet
  <1> HIDE DEF q
  <1>2. /\ q \in Pasts /\ q.changes = p.changes /\ q.told = p.told
        /\ q.tangled = p.tangled /\ q.excused = e
        /\ q.known = p.known /\ q.typed = p.typed /\ q.uploaded = p.uploaded /\ q.crossed = p.crossed
    BY <1>1, PastOf DEF PastWith, Pasts
  <1> USE DEF q
  <1> QED BY <1>2

\* A failed fetch, or a failed restore, excuses.
LEMMA FailsTo ==
  ASSUME past \in Pasts, past' = [Counts(past) EXCEPT !.excused = TRUE]
  PROVE  /\ past' \in Pasts /\ past'.changes = past.changes /\ past'.told = past.told
         /\ past'.tangled = past.tangled /\ past'.excused
         /\ past'.known = past.known /\ past'.typed = past.typed /\ past'.uploaded = past.uploaded
  <1> DEFINE yes == TRUE
  <1>1. yes \in BOOLEAN /\ yes
    OBVIOUS
  <1>2. past' = [Counts(past) EXCEPT !.excused = yes]
    OBVIOUS
  <1> HIDE DEF yes
  <1> DEFINE p == Counts(past)
  <1>3. /\ p \in Pasts /\ p.changes = past.changes /\ p.told = past.told
        /\ p.tangled = past.tangled /\ p.known = past.known /\ p.typed = past.typed /\ p.uploaded = past.uploaded
    BY CountsTo
  <1>4. past' = [p EXCEPT !.excused = yes]
    BY <1>2
  <1> HIDE DEF p
  <1>5. LET q == [p EXCEPT !.excused = yes] IN
        /\ q \in Pasts /\ q.changes = p.changes /\ q.told = p.told
        /\ q.tangled = p.tangled /\ q.excused = yes
        /\ q.known = p.known /\ q.typed = p.typed /\ q.uploaded = p.uploaded /\ q.crossed = p.crossed
    BY <1>1, <1>3, ExcusesTo
  <1> QED BY <1>1, <1>3, <1>4, <1>5

LEMMA SamePage ==
  ASSUME UNCHANGED page
  PROVE  Shape' = Shape /\ Showable' = Showable /\ CallRecords' = CallRecords
  BY DEF Shape, Showable, CallRecords

\* A list, and the calls for it.
LEMMA OfLists ==
  ASSUME RangeInv, ListInv, page \in Lists
  PROVE  /\ data \in 0..MaxChanges /\ shown \in 0..MaxChanges /\ data \in Nat /\ shown \in Nat
         /\ past \in Pasts /\ past.changes \in Nat /\ past.told \in Nat
         /\ calls \subseteq CallRecords /\ Fits(calls) /\ due \in 0..MaxChanges
         /\ \A c \in calls : c.at = "answered" => c.got \in Nat /\ c.got \in 0..MaxChanges
  <1>1. data \in 0..MaxChanges /\ shown \in 0..MaxChanges
    BY ShapeIs DEF RangeInv
  <1>2. \A c \in calls : c.at = "answered" => c.got \in 0..data
    BY DEF ListInv
  <1> QED BY <1>1, <1>2, PastOf, NoneApart DEF RangeInv, Fits

LEMMA ListOfHappens ==
  ASSUME RangeInv, ListInv, page \in Lists, NEW op \in DOMAIN Operations, Happens(op)
  PROVE  RangeInv' /\ ListInv'
  <1>1. PICK added \in BOOLEAN, known \in BOOLEAN :
              /\ shown' = IF added THEN shown + 1 ELSE shown
              /\ past'.told = IF known THEN data + 1 ELSE past.told
              /\ known /\ ~ added => due' # 0
              /\ due' = 0 => due = 0
              /\ past'.tangled <=> past.tangled \/ (added /\ calls # {})
              /\ past'.excused <=> past.excused \/ (added /\ shown # data)
    BY OfLists, HappensSays
  <1>2. /\ data' = data + 1 /\ past.changes < MaxChanges /\ past' \in Pasts
        /\ past'.changes = past.changes + 1
        /\ UNCHANGED <<calls, page, timer, generation, drafts, mounted>>
        /\ due' \in 0..MaxChanges
    BY OfLists, HappensSays
  <1>3. /\ data = past.changes /\ past.told <= data /\ shown <= data
        /\ \A c \in calls : c.kind = "fetch" /\ (c.at = "sent" \/ (c.at = "answered" /\ c.got \in 0..data))
    BY DEF ListInv
  <1>4. data' \in 0..MaxChanges /\ shown' \in 0..MaxChanges /\ past'.told <= data' /\ shown' <= data'
        /\ data' = past'.changes
    BY <1>1, <1>2, <1>3, OfLists, NoneApart
  <1>5. RangeInv'
    <2>1. /\ Shape' = Shape /\ Showable' = Showable /\ CallRecords' = CallRecords
          /\ Shape = 0..MaxChanges /\ Showable = 0..MaxChanges
      BY <1>2, SamePage, ShapeIs
    <2>2. data' \in Shape' /\ shown' \in Showable' /\ calls' \subseteq CallRecords'
      BY <1>2, <1>4, <2>1 DEF RangeInv
    <2> QED BY <1>2, <2>2 DEF RangeInv
  <1>6. \A c \in calls : c.kind = "fetch" /\ (c.at = "sent" \/ (c.at = "answered" /\ c.got \in 0..data'))
    BY <1>2, <1>3, OfLists
  <1>7. ~ past'.tangled => \A c, d \in calls : c = d
    BY <1>1 DEF ListInv
  <1>8. ASSUME ~ past'.tangled, ~ past'.excused, due' = 0
        PROVE  /\ calls = {} => shown' >= past'.told
               /\ \A c \in calls : c.at = "answered" => c.got >= past'.told
    <2>1. CASE added
      <3>1. calls = {} /\ shown = data
        BY <1>1, <1>8, <2>1
      <3> QED BY <1>1, <1>3, <2>1, <3>1, OfLists
    <2>2. CASE ~ added
      <3>1. ~ past.tangled /\ ~ past.excused /\ due = 0 /\ shown' = shown /\ past'.told = past.told
        BY <1>1, <1>8, <2>2
      <3> QED BY <3>1 DEF ListInv
    <2> QED BY <2>1, <2>2
  <1>9. ListInv'
    BY <1>2, <1>4, <1>6, <1>7, <1>8 DEF ListInv
  <1> QED BY <1>5, <1>9

LEMMA ListOfFetches ==
  ASSUME RangeInv, ListInv, page \in Lists, Fetches
  PROVE  RangeInv' /\ ListInv'
  <1>1. PICK c \in CallRecords : c.kind = "fetch" /\ c.at = "sent" /\ calls' = calls \union {c}
    BY FetchesSays
  <1>2. /\ Room /\ due' \in 0..MaxChanges
        /\ past' \in Pasts /\ past'.changes = past.changes /\ past'.told = past.told
        /\ past'.tangled <=> calls # {}
        /\ past'.excused <=> past.excused /\ calls # {}
        /\ UNCHANGED <<data, shown, page, timer, generation, drafts, mounted>>
    BY FetchesSays
  <1>3. Fits(calls')
    BY <1>1, <1>2, OneMore DEF Room, RangeInv
  <1>4. RangeInv'
    <2>1. Shape' = Shape /\ Showable' = Showable /\ CallRecords' = CallRecords
      BY <1>2, SamePage
    <2> QED BY <1>1, <1>2, <1>3, <2>1 DEF RangeInv, Fits
  <1>5. ASSUME ~ past'.tangled PROVE calls' = {c}
    BY <1>1, <1>2, <1>5
  <1>6. \A d \in calls' : d.kind = "fetch" /\ (d.at = "sent" \/ (d.at = "answered" /\ d.got \in 0..data'))
    BY <1>1, <1>2 DEF ListInv
  <1>7. ListInv'
    BY <1>1, <1>2, <1>5, <1>6 DEF ListInv
  <1> QED BY <1>4, <1>7

LEMMA ListOfServes ==
  ASSUME RangeInv, ListInv, page \in Lists, NEW c \in calls, ServesList(c)
  PROVE  RangeInv' /\ ListInv'
  <1> DEFINE a == Answer(c, data)
  <1>1. /\ calls' = (calls \ {c}) \union {a}
        /\ UNCHANGED <<data, shown, due, past, page, timer, generation, drafts, mounted>> /\ c.kind = "fetch"
    BY DEF ServesList, Returns, Answer, Unlisted
  <1>2. a \in CallRecords /\ a.kind = "fetch" /\ a.at = "answered" /\ a.got = data
    BY <1>1, AnswerIs DEF RangeInv
  <1> HIDE DEF a
  <1>3. Fits(calls')
    BY <1>1, OfLists, OneReplaced
  <1>4. RangeInv'
    <2>1. Shape' = Shape /\ Showable' = Showable /\ CallRecords' = CallRecords
      BY <1>1, SamePage
    <2> QED BY <1>1, <1>2, <1>3, <2>1 DEF RangeInv, Fits
  <1>5. \A d \in calls' : d.kind = "fetch" /\ (d.at = "sent" \/ (d.at = "answered" /\ d.got \in 0..data))
    BY <1>1, <1>2, OfLists DEF ListInv
  <1>6. ~ past.tangled => calls' = {a}
    BY <1>1 DEF ListInv
  <1>7. past.told <= data /\ data >= past.told
    BY OfLists DEF ListInv
  <1>8. ListInv'
    BY <1>1, <1>2, <1>5, <1>6, <1>7 DEF ListInv
  <1> QED BY <1>4, <1>8

LEMMA ListOfShows ==
  ASSUME RangeInv, ListInv, page \in Lists, NEW c \in calls, ShowsList(c)
  PROVE  RangeInv' /\ ListInv'
  <1>1. /\ calls' = calls \ {c} /\ c.at = "answered"
        /\ UNCHANGED <<data, due, page, timer, generation, drafts, mounted>>
    BY DEF ShowsList, Unlisted
  <1>2. Fits(calls')
    BY <1>1, OfLists, OneLess
  <1>3. Shape' = Shape /\ Showable' = Showable /\ CallRecords' = CallRecords /\ Showable = 0..MaxChanges
    BY <1>1, SamePage, ShapeIs
  <1>4. c.got \in 0..data /\ c.got \in 0..MaxChanges /\ c.got <= data
    BY <1>1, OfLists DEF ListInv
  <1>5. CASE shown' = c.got /\ past' = past
    <2>1. RangeInv'
      BY <1>1, <1>2, <1>3, <1>4, <1>5 DEF RangeInv, Fits
    <2>2. ListInv'
      BY <1>1, <1>4, <1>5 DEF ListInv
    <2> QED BY <2>1, <2>2
  <1>6. CASE shown' = shown /\ past' = [Counts(past) EXCEPT !.excused = TRUE]
    <2>1. past' \in Pasts /\ past'.changes = past.changes /\ past'.told = past.told
          /\ past'.tangled = past.tangled /\ past'.excused
      BY <1>6, OfLists, FailsTo
    <2>2. RangeInv'
      BY <1>1, <1>2, <1>3, <1>6, <2>1 DEF RangeInv, Fits
    <2>3. ListInv'
      BY <1>1, <1>6, <2>1 DEF ListInv
    <2> QED BY <2>2, <2>3
  <1> QED BY <1>5, <1>6 DEF ShowsList

LEMMA ListOfStep ==
  ASSUME RangeInv, ListInv, page \in Lists, ListStep
  PROVE  RangeInv' /\ ListInv' /\ page' = page
  <1>1. RangeInv' /\ ListInv'
    BY ListOfHappens, ListOfFetches, ListOfServes, ListOfShows DEF ListStep
  <1>2. page' = page
    BY DEF ListStep, Happens, Fetches, ServesList, ShowsList, Unlisted
  <1> QED BY <1>1, <1>2

--------------------------------------------------------------------------------
(* A report *)

LEMMA RunIs ==
  ASSUME NEW r \in Run
  PROVE  /\ r = [run |-> r.run, over |-> r.over] /\ r.run \in 0..MaxChanges /\ r.over \in BOOLEAN
         /\ r.run \in Nat /\ r # None
  BY NoneApart DEF Run

\* A run that is over, and one that has just begun.
LEMMA EndedIs ==
  ASSUME NEW r \in Run
  PROVE  LET e == [r EXCEPT !.over = TRUE] IN e \in Run /\ e.run = r.run /\ e.over
  <1> DEFINE yes == TRUE
             e == [r EXCEPT !.over = yes]
  <1>1. yes \in BOOLEAN /\ yes
    OBVIOUS
  <1> HIDE DEF yes
  <1>2. e = [run |-> r.run, over |-> yes]
    BY RunIs
  <1>3. e \in Run /\ e.run = r.run /\ e.over
    BY <1>1, <1>2, RunIs DEF Run
  <1> USE DEF yes
  <1> QED BY <1>3

LEMMA BegunIs ==
  ASSUME NEW n \in 0..MaxChanges, n < MaxChanges
  PROVE  LET b == [run |-> n + 1, over |-> FALSE] IN
         b \in Run /\ b.run = n + 1 /\ ~ b.over /\ Begun(b)
  <1> DEFINE no == FALSE
             b == [run |-> n + 1, over |-> no]
  <1>1. no \in BOOLEAN /\ ~ no
    OBVIOUS
  <1> HIDE DEF no
  <1>2. b.run = n + 1 /\ b.over = no /\ n + 1 \in 0..MaxChanges /\ n + 1 # 0
    BY NoneApart
  <1>3. b \in Run /\ b.run = n + 1 /\ ~ b.over /\ Begun(b)
    BY <1>1, <1>2 DEF Run, Begun
  <1> USE DEF no
  <1> QED BY <1>3

LEMMA TimerIs ==
  ASSUME NEW t \in Timers
  PROVE  t.run \in 1..MaxChanges /\ t.run \in Nat /\ t.run # 0 /\ t.number \in Nat
  BY NoneApart DEF Timers

LEMMA NoneIsNoTimer == None \notin Timers
  BY NoneAssumption

LEMMA ArmsTo ==
  ASSUME NEW run \in 1..MaxChanges, NEW number \in Nat, Arms(run, number)
  PROVE  timer' \in Timers /\ timer'.run = run /\ timer'.number = number
  BY DEF Arms, Timers

\* The report, and the calls for it.
LEMMA OfReports ==
  ASSUME RangeInv, page = "report"
  PROVE  /\ data \in Run /\ shown \in Run /\ past \in Pasts /\ past.known \in Nat /\ generation \in Nat
         /\ calls \subseteq CallRecords /\ Fits(calls) /\ timer \in Timers \union {None} /\ Shape = Run
         /\ Showable = Run
         /\ \A c \in calls : c.got # None => c.got \in Run
         /\ \A c \in calls : c.number \in Nat /\ c.run \in 0..MaxChanges /\ c.run \in Nat
  <1>1. Shape = Run /\ Showable = Run
    BY ShapeIs
  <1>2. calls \subseteq CallRecords /\ past \in Pasts
    BY DEF RangeInv
  <1>3. \A c \in calls : c.got \in {None} \union Run /\ c.number \in Nat /\ c.run \in 0..MaxChanges
    BY <1>1, <1>2, CallOf
  <1> QED BY <1>1, <1>2, <1>3, PastOf, NoneApart DEF RangeInv, Fits, Timers

\* What keeps the types while the report is looked at.
LEMMA ReportTypes ==
  ASSUME RangeInv, page = "report", OnReport, data' \in Run, shown' \in Run, calls' \subseteq CallRecords, Fits(calls'),
         generation' \in Nat, mounted' \in BOOLEAN, timer' \in Timers \union {None}, past' \in Pasts
  PROVE  RangeInv' /\ page' = page
  <1>1. UNCHANGED <<page, due, drafts>>
    BY DEF OnReport
  <1>2. Shape' = Run /\ Showable' = Run /\ CallRecords' = CallRecords
    BY <1>1, SamePage, ShapeIs
  <1> QED BY <1>1, <1>2 DEF RangeInv, Fits, Timers

LEMMA ReportOfRunEnds ==
  ASSUME RangeInv, ReportInv, RunEnds
  PROVE  RangeInv' /\ ReportInv' /\ page' = page
  <1>1. OnReport /\ page = "report" /\ data' = [data EXCEPT !.over = TRUE]
        /\ UNCHANGED <<shown, calls, timer, generation, mounted, past>>
    BY DEF RunEnds, OnReport
  <1>2. data' \in Run /\ data'.run = data.run /\ data'.over
    BY <1>1, OfReports, EndedIs
  <1>3. RangeInv' /\ page' = page
    BY <1>1, <1>2, OfReports, ReportTypes DEF RangeInv
  <1>4. ServedInv'
    BY <1>1, <1>2 DEF ReportInv, ServedInv, Serves, Begun
  <1>5. ChainInv' /\ FollowedInv' /\ LastRunInv'
    BY <1>1 DEF ReportInv, ChainInv, FollowedInv, LastRunInv, Follows
  <1> QED BY <1>3, <1>4, <1>5 DEF ReportInv

LEMMA ReportOfStartsElsewhere ==
  ASSUME RangeInv, ReportInv, StartsElsewhere
  PROVE  RangeInv' /\ ReportInv' /\ page' = page
  <1>1. OnReport /\ page = "report" /\ data' = [run |-> data.run + 1, over |-> FALSE] /\ data.run < MaxChanges
        /\ UNCHANGED <<shown, calls, timer, generation, mounted, past>>
    BY DEF StartsElsewhere, OnReport
  <1>2. data' \in Run /\ data'.run = data.run + 1 /\ Begun(data')
    BY <1>1, OfReports, RunIs, BegunIs
  <1>3. RangeInv' /\ page' = page
    BY <1>1, <1>2, OfReports, ReportTypes DEF RangeInv
  <1>4. ServedInv'
    <2>1. \A c \in calls : Serves(c)'
      <3> SUFFICES ASSUME NEW c \in calls PROVE Serves(c)'
        OBVIOUS
      <3>1. Serves(c) /\ (c.got # None => c.got.run \in Nat) /\ data.run \in Nat
        BY <1>1, OfReports, RunIs DEF ReportInv, ServedInv
      <3> QED BY <1>1, <1>2, <3>1 DEF Serves, Begun
    <2>2. past.known <= data'.run
      BY <1>1, <1>2, OfReports, RunIs DEF ReportInv, ServedInv
    <2> QED BY <1>1, <1>2, <2>1, <2>2 DEF ReportInv, ServedInv, Begun
  <1>5. ChainInv' /\ FollowedInv' /\ LastRunInv'
    BY <1>1 DEF ReportInv, ChainInv, FollowedInv, LastRunInv, Follows
  <1> QED BY <1>3, <1>4, <1>5 DEF ReportInv

LEMMA MountsSays ==
  ASSUME RangeInv, page = "report", Mounts
  PROVE  /\ past' \in Pasts /\ past'.known = past.known /\ past'.tangled = past.tangled /\ ~ past'.excused
         /\ Room /\ mounted' = TRUE /\ UNCHANGED <<data, shown, timer, generation>>
         /\ \E c \in CallRecords : /\ c.kind = "restore" /\ c.at = "sent" /\ c.got = None
                             /\ calls' = calls \union {c}
  <1>1. /\ Room /\ mounted' = TRUE /\ calls' = calls \union {New("restore", Unused, 0)}
        /\ past' = [past EXCEPT !.changes = past.changes + 1, !.excused = FALSE]
        /\ UNCHANGED <<data, shown, timer, generation>> /\ past.changes < MaxChanges
    BY DEF Mounts
  <1>2. New("restore", Unused, 0) \in CallRecords /\ New("restore", Unused, 0).kind = "restore"
        /\ New("restore", Unused, 0).at = "sent" /\ New("restore", Unused, 0).got = None
    BY <1>1, NumberIsLeft, NewIs, NoneApart DEF Kinds
  <1> DEFINE no == FALSE
             count == past.changes + 1
  <1>3. no \in BOOLEAN /\ ~ no
    OBVIOUS
  <1>4. past' = [past EXCEPT !.changes = count, !.excused = no]
    BY <1>1
  <1>5. past \in Pasts
    BY DEF RangeInv
  <1>6. count \in 0..MaxChanges
    BY <1>1, <1>5, PastOf, NoneApart
  <1> HIDE DEF no, count
  <1>7. past' = PastWith(count, past.failures, past.told, past.tangled, no, past.known, past.typed, past.uploaded, past.crossed)
    BY <1>4, <1>5, MountedSet
  <1>8. past' \in Pasts /\ past'.known = past.known /\ past'.tangled = past.tangled /\ past'.excused = no
    BY <1>3, <1>5, <1>6, <1>7, PastOf DEF PastWith, Pasts
  <1> QED BY <1>1, <1>2, <1>3, <1>8

\* One more call, none of the present chain.
LEMMA ReportOfMounts ==
  ASSUME RangeInv, ReportInv, Mounts
  PROVE  RangeInv' /\ ReportInv' /\ page' = page
  <1>1. OnReport /\ page = "report"
    BY DEF Mounts, OnReport
  <1>2. /\ past' \in Pasts /\ past'.known = past.known /\ past'.tangled = past.tangled /\ ~ past'.excused
        /\ Room /\ mounted' = TRUE /\ UNCHANGED <<data, shown, timer, generation>>
    BY <1>1, MountsSays
  <1>3. PICK c \in CallRecords : c.kind = "restore" /\ c.at = "sent" /\ c.got = None /\ calls' = calls \union {c}
    BY <1>1, MountsSays
  <1>4. Fits(calls')
    BY <1>2, <1>3, OneMore DEF Room, RangeInv
  <1>5. RangeInv' /\ page' = page
    BY <1>1, <1>2, <1>3, <1>4, OfReports, ReportTypes
  <1>6. ServedInv'
    BY <1>1, <1>2, <1>3 DEF ReportInv, ServedInv, Serves, Begun
  <1>7. ChainInv' /\ FollowedInv' /\ LastRunInv'
    BY <1>1, <1>2, <1>3 DEF ReportInv, ChainInv, FollowedInv, LastRunInv, Follows
  <1> QED BY <1>5, <1>6, <1>7 DEF ReportInv

\* Another generation: no poll follows it yet.
LEMMA NobodyFollows ==
  ASSUME RangeInv, page = "report", ServedInv
  PROVE  Cancelled \in Nat /\ \A c \in calls : ~ (c.kind = "poll" /\ c.number = Cancelled) /\
           (c.kind = "poll" => c.number <= Cancelled)
  BY OfReports DEF ServedInv, Serves, Cancelled

LEMMA ReportOfUnmounts ==
  ASSUME RangeInv, ReportInv, Unmounts
  PROVE  RangeInv' /\ ReportInv' /\ page' = page
  <1>1. /\ OnReport /\ page = "report" /\ mounted' = FALSE /\ generation' = Cancelled /\ timer' = None
        /\ UNCHANGED <<data, shown, calls, past>>
    BY DEF Unmounts, OnReport
  <1>2. ServedInv /\ ChainInv /\ LastRunInv
    BY <1>1 DEF ReportInv
  <1>3. generation' \in Nat /\ \A c \in calls : ~ Follows(c)' /\ (c.kind = "poll" => c.number <= generation')
    BY <1>1, <1>2, NobodyFollows DEF Follows
  <1>4. RangeInv' /\ page' = page
    BY <1>1, <1>3, OfReports, ReportTypes
  <1>5. ServedInv'
    BY <1>1, <1>2, <1>3 DEF ServedInv, Serves
  <1>6. ChainInv' /\ FollowedInv' /\ LastRunInv'
    BY <1>1, <1>2, <1>3 DEF ChainInv, FollowedInv, LastRunInv
  <1> QED BY <1>4, <1>5, <1>6 DEF ReportInv

LEMMA ReportOfStarts ==
  ASSUME RangeInv, ReportInv, Starts
  PROVE  RangeInv' /\ ReportInv' /\ page' = page
  <1> DEFINE c == New("start", 0, 0)
  <1>1. /\ OnReport /\ page = "report" /\ Room /\ calls' = calls \union {c}
        /\ UNCHANGED <<data, shown, timer, generation, mounted, past>>
    BY DEF Starts, OnReport
  <1>2. c \in CallRecords /\ c.kind = "start" /\ c.at = "sent" /\ c.got = None
    BY NewIs, NoneApart DEF Kinds
  <1> HIDE DEF c
  <1>3. Fits(calls')
    BY <1>1, OneMore DEF Room, RangeInv
  <1>4. RangeInv' /\ page' = page
    BY <1>1, <1>2, <1>3, OfReports, ReportTypes DEF RangeInv
  <1>5. ServedInv'
    BY <1>1, <1>2 DEF ReportInv, ServedInv, Serves, Begun
  <1>6. ChainInv' /\ FollowedInv' /\ LastRunInv'
    BY <1>1, <1>2 DEF ReportInv, ChainInv, FollowedInv, LastRunInv, Follows
  <1> QED BY <1>4, <1>5, <1>6 DEF ReportInv

\* The run before an answer is at most the one after it, and the answer says no more than the server has.
LEMMA ServesSays ==
  ASSUME RangeInv, page = "report", Begun(data), NEW c \in calls, ServesReport(c)
  PROVE  /\ c.at = "sent" /\ c.kind \in {"restore", "start", "poll"}
         /\ UNCHANGED <<shown, timer, generation, mounted, past>>
         /\ data' \in Run /\ data'.run >= data.run /\ Begun(data')
         /\ \E got \in {None} \union Run :
              /\ calls' = (calls \ {c}) \union {Answer(c, got)}
              /\ c.kind = "restore" => got # None
              /\ got # None =>
                   /\ Begun(got) /\ got.run <= data'.run
                   /\ c.kind = "start" => got.run # 0
                   /\ c.kind = "poll" => got.run = c.run
                   /\ c.kind \in {"restore", "start"} => got.run >= data.run
  <1>1. c.at = "sent" /\ c.kind \in {"restore", "start", "poll"}
        /\ UNCHANGED <<shown, timer, generation, mounted, past>>
    BY DEF ServesReport
  <1>2. data \in Run /\ data # None /\ data.run \in Nat /\ data.run \in 0..MaxChanges
    BY OfReports, RunIs
  <1>3. CASE /\ c.kind = "start" /\ data.over /\ data.run < MaxChanges
             /\ data' = [run |-> data.run + 1, over |-> FALSE] /\ calls' = Returns(c, data')
    <2>1. data' \in Run /\ data'.run = data.run + 1 /\ Begun(data')
      BY <1>2, <1>3, BegunIs
    <2>2. calls' = (calls \ {c}) \union {Answer(c, data')}
      BY <1>3 DEF Returns, Answer
    <2>3. data'.run >= data.run /\ data'.run # 0 /\ data'.run <= data'.run
      BY <1>2, <2>1
    <2> QED BY <1>1, <1>3, <2>1, <2>2, <2>3
  <1>4. CASE c.kind = "start" /\ data.over /\ data' = data /\ calls' = Returns(c, None)
    <2>1. calls' = (calls \ {c}) \union {Answer(c, None)}
      BY <1>4 DEF Returns, Answer
    <2> QED BY <1>1, <1>2, <1>4, <2>1
  <1>5. CASE c.kind = "start" /\ ~ data.over /\ data' = data /\ calls' = Returns(c, data)
    <2>1. calls' = (calls \ {c}) \union {Answer(c, data)}
      BY <1>5 DEF Returns, Answer
    <2>2. data.run # 0
      BY <1>5 DEF Begun
    <2> QED BY <1>1, <1>2, <1>5, <2>1, <2>2
  <1>6. CASE c.kind = "restore" /\ data' = data /\ calls' = Returns(c, data)
    <2>1. calls' = (calls \ {c}) \union {Answer(c, data)}
      BY <1>6 DEF Returns, Answer
    <2> QED BY <1>1, <1>2, <1>6, <2>1
  <1>7. CASE /\ c.kind = "poll" /\ data' = data
             /\ calls' = Returns(c, IF c.run = data.run THEN data ELSE None)
    <2> DEFINE got == IF c.run = data.run THEN data ELSE None
    <2>1. calls' = (calls \ {c}) \union {Answer(c, got)}
      BY <1>7 DEF Returns, Answer
    <2>2. got \in {None} \union Run /\ (got # None => got = data /\ got.run = c.run)
      BY <1>2
    <2> HIDE DEF got
    <2> QED BY <1>1, <1>2, <1>7, <2>1, <2>2
  <1> QED BY <1>3, <1>4, <1>5, <1>6, <1>7 DEF ServesReport

LEMMA ReportOfServes ==
  ASSUME RangeInv, ReportInv, NEW c \in calls, ServesReport(c)
  PROVE  RangeInv' /\ ReportInv' /\ page' = page
  <1>1. OnReport /\ page = "report"
    BY DEF ServesReport, OnReport
  <1>2. ServedInv /\ ChainInv /\ FollowedInv /\ LastRunInv
    BY <1>1 DEF ReportInv
  <1>3. /\ c.at = "sent" /\ c.kind \in {"restore", "start", "poll"}
        /\ UNCHANGED <<shown, timer, generation, mounted, past>>
        /\ data' \in Run /\ data'.run >= data.run /\ Begun(data')
    BY <1>1, <1>2, ServesSays DEF ServedInv
  <1>4. PICK got \in {None} \union Run :
              /\ calls' = (calls \ {c}) \union {Answer(c, got)}
              /\ c.kind = "restore" => got # None
              /\ got # None =>
                   /\ Begun(got) /\ got.run <= data'.run
                   /\ c.kind = "start" => got.run # 0
                   /\ c.kind = "poll" => got.run = c.run
                   /\ c.kind \in {"restore", "start"} => got.run >= data.run
    BY <1>1, <1>2, ServesSays DEF ServedInv
  <1> DEFINE a == Answer(c, got)
  <1>5. /\ a \in CallRecords /\ a.kind = c.kind /\ a.at = "answered" /\ a.number = c.number /\ a.run = c.run
        /\ a.got = got /\ calls' = (calls \ {c}) \union {a}
    BY <1>1, <1>4, AnswerIs, OfReports
  <1> HIDE DEF a
  <1>6. Fits(calls')
    BY <1>1, <1>5, OfReports, OneReplaced
  <1>7. RangeInv' /\ page' = page
    BY <1>1, <1>3, <1>5, <1>6, OfReports, ReportTypes DEF RangeInv
  <1>8. data.run \in Nat /\ data'.run \in Nat /\ past.known \in Nat
    BY <1>1, <1>3, OfReports, RunIs
  <1>9. \A d \in calls' : Serves(d)'
    <2>1. ASSUME NEW d \in calls PROVE Serves(d)'
      <3>1. Serves(d) /\ (d.got # None => d.got.run \in Nat)
        BY <1>1, <1>2, OfReports, RunIs DEF ServedInv
      <3> QED BY <1>3, <1>8, <3>1 DEF Serves
    <2>2. Serves(a)'
      <3>1. Serves(c)
        BY <1>2 DEF ServedInv
      <3> QED BY <1>3, <1>4, <1>5, <3>1 DEF Serves
    <2> QED BY <1>5, <2>1, <2>2
  <1>10. ServedInv'
    BY <1>2, <1>3, <1>8, <1>9 DEF ServedInv
  <1>11. \A d : Follows(d)' <=> Follows(d)
    BY <1>3 DEF Follows
  <1>12. Follows(a) <=> Follows(c)
    BY <1>5 DEF Follows
  <1>13. ChainInv'
    <2>1. \A d \in calls' : timer # None => ~ Follows(d)
      BY <1>2, <1>5, <1>12 DEF ChainInv
    <2>2. ASSUME NEW x \in calls', NEW y \in calls', x.kind = "poll", y.kind = "poll", x.number = y.number
          PROVE  x = y
      BY <1>2, <1>5, <2>2 DEF ChainInv
    <2> QED BY <1>2, <1>3, <1>11, <2>1, <2>2 DEF ChainInv
  <1>14. FollowedInv'
    <2>1. ASSUME NEW d \in calls, d.kind = "restore" \/ Follows(d)
          PROVE  \E e \in calls' : e.kind = "restore" \/ Follows(e)
      BY <1>5, <1>12, <2>1
    <2> QED BY <1>2, <1>3, <1>11, <2>1 DEF FollowedInv
  <1>15. LastRunInv'
    <2> SUFFICES ASSUME ~ past.tangled, NEW d \in calls'
                 PROVE  /\ Follows(d) => d.run = shown.run
                        /\ d.kind \in {"restore", "start"} /\ d.got # None => d.got.run >= past.known
      BY <1>2, <1>3, <1>11 DEF LastRunInv
    <2>1. CASE d = a
      <3>1. Follows(d) => d.run = shown.run
        BY <1>2, <1>5, <1>12, <2>1 DEF LastRunInv
      <3>2. ASSUME d.kind \in {"restore", "start"}, d.got # None PROVE d.got.run >= past.known
        <4>1. got \in Run /\ got.run \in Nat /\ got.run >= data.run
          BY <1>4, <1>5, <2>1, <3>2, RunIs
        <4> QED BY <1>2, <1>5, <1>8, <2>1, <4>1 DEF ServedInv
      <3> QED BY <3>1, <3>2
    <2>2. CASE d \in calls
      BY <1>2, <2>2 DEF LastRunInv
    <2> QED BY <1>5, <2>1, <2>2
  <1> QED BY <1>7, <1>10, <1>13, <1>14, <1>15 DEF ReportInv

LEMMA ReportOfPolls ==
  ASSUME RangeInv, ReportInv, Polls
  PROVE  RangeInv' /\ ReportInv' /\ page' = page
  <1> DEFINE c == New("poll", timer.number, timer.run)
  <1>1. /\ OnReport /\ page = "report" /\ Room /\ calls' = calls \union {c} /\ timer # None /\ timer' = None
        /\ UNCHANGED <<data, shown, generation, mounted, past>>
    BY DEF Polls, OnReport
  <1>2. timer \in Timers /\ timer.run \in 1..MaxChanges /\ timer.run \in 0..MaxChanges /\ timer.number \in Nat
        /\ timer.run # 0
    BY <1>1, OfReports, TimerIs DEF Timers
  <1>3. c \in CallRecords /\ c.kind = "poll" /\ c.at = "sent" /\ c.got = None /\ c.number = timer.number
        /\ c.run = timer.run
    BY <1>2, NewIs DEF Kinds
  <1> HIDE DEF c
  <1>4. Fits(calls')
    BY <1>1, OneMore DEF Room, RangeInv
  <1>5. RangeInv' /\ page' = page
    BY <1>1, <1>3, <1>4, OfReports, ReportTypes DEF RangeInv
  <1>6. ServedInv /\ ChainInv /\ FollowedInv /\ LastRunInv /\ timer.number = generation /\ generation \in Nat
    BY <1>1, OfReports DEF ReportInv, ChainInv
  <1>7. ServedInv'
    BY <1>1, <1>2, <1>3, <1>6 DEF ServedInv, Serves, Begun
  <1>8. Follows(c) /\ \A d \in calls : ~ Follows(d)
    BY <1>1, <1>3, <1>6 DEF ChainInv, Follows
  <1>9. ChainInv'
    BY <1>1, <1>3, <1>6, <1>8 DEF ChainInv, Follows
  <1>10. FollowedInv'
    BY <1>1, <1>3, <1>6 DEF FollowedInv, Follows
  <1>11. LastRunInv'
    BY <1>1, <1>3, <1>6, <1>8 DEF LastRunInv, Follows
  <1> QED BY <1>5, <1>7, <1>9, <1>10, <1>11 DEF ReportInv


\* A run handed over is remembered if it is later than the one known, and crosses with another handing over.
LEMMA KnowsSays ==
  ASSUME RangeInv, page = "report", NEW c \in calls, c.got # None, past' = Knows(c)
  PROVE  /\ past' \in Pasts /\ past'.known = (IF c.got.run > past.known THEN c.got.run ELSE past.known)
         /\ past'.excused = past.excused
         /\ past'.tangled <=> past.tangled \/ \E d \in calls \ {c} : d.kind \in {"restore", "start"}
  <1> DEFINE known == IF c.got.run > past.known THEN c.got.run ELSE past.known
             tangled == past.tangled \/ \E d \in calls \ {c} : d.kind \in {"restore", "start"}
  <1>1. past' = [past EXCEPT !.known = known, !.tangled = tangled]
    BY DEF Knows
  <1>2. past \in Pasts /\ c.got.run \in Nat /\ past.known \in Nat
    BY OfReports, RunIs
  <1>3. known \in Nat /\ tangled \in BOOLEAN
    BY <1>2
  <1>4. /\ known = (IF c.got.run > past.known THEN c.got.run ELSE past.known)
        /\ tangled <=> past.tangled \/ \E d \in calls \ {c} : d.kind \in {"restore", "start"}
    OBVIOUS
  <1> HIDE DEF known, tangled
  <1>5. past' = PastWith(past.changes, past.failures, past.told, tangled, past.excused, known, past.typed, past.uploaded, past.crossed)
    BY <1>1, <1>2, KnownSet
  <1>6. past' \in Pasts /\ past'.known = known /\ past'.tangled = tangled /\ past'.excused = past.excused
    BY <1>2, <1>3, <1>5, PastOf DEF PastWith, Pasts
  <1> QED BY <1>4, <1>6

\* A call that is over leaves the others as they are.
LEMMA ServedStays ==
  ASSUME RangeInv, page = "report", ServedInv, NEW d \in calls, generation' \in Nat, generation' >= generation,
         UNCHANGED data
  PROVE  Serves(d)'
  <1>1. Serves(d) /\ d.number \in Nat /\ generation \in Nat
    BY OfReports DEF ServedInv
  <1> QED BY <1>1 DEF Serves, Begun

\* What beginPolling does to the chain: nothing for a report of no run, another generation otherwise.
LEMMA BeginsSays ==
  ASSUME RangeInv, page = "report", NEW c \in calls, c.got # None, BeginsPolling(c)
  PROVE  /\ shown' = c.got /\ timer' \in Timers \union {None} /\ generation' \in Nat /\ generation' >= generation
         /\ c.got.run = 0 => UNCHANGED <<timer, generation>>
         /\ c.got.run # 0 =>
              /\ generation' = Cancelled
              /\ timer' # None => timer'.run = c.got.run /\ timer'.number = Cancelled
              /\ timer' = None => c.got.over
  <1>1. /\ c.got.run \in 0..MaxChanges /\ c.got.run \in Nat /\ generation \in Nat /\ Cancelled \in Nat
        /\ Cancelled >= generation /\ timer \in Timers \union {None}
    BY OfReports, RunIs DEF Cancelled
  <1>2. shown' = c.got
    BY DEF BeginsPolling, Shows
  <1>3. CASE c.got.run = 0
    BY <1>1, <1>2, <1>3 DEF BeginsPolling
  <1>4. CASE c.got.run # 0
    <2>1. generation' = Cancelled /\ (c.got.over => timer' = None) /\ (~ c.got.over => Arms(c.got.run, Cancelled))
      BY <1>4 DEF BeginsPolling
    <2>2. c.got.run \in 1..MaxChanges
      BY <1>1, <1>4, NoneApart
    <2>3. CASE c.got.over
      BY <1>1, <1>2, <1>4, <2>1, <2>3
    <2>4. CASE ~ c.got.over
      <3>1. timer' \in Timers /\ timer'.run = c.got.run /\ timer'.number = Cancelled
        BY <1>1, <2>1, <2>2, <2>4, ArmsTo
      <3>2. timer' # None
        BY <2>1, <2>4, <3>1, NoneIsNoTimer
      <3> QED BY <1>1, <1>2, <1>4, <2>1, <3>1, <3>2
    <2> QED BY <2>3, <2>4
  <1> QED BY <1>3, <1>4

\* The run handed over is shown and polled for; when nothing crossed it is the latest known, and when it
\* is none at all there was none before, and so no poll for one.
LEMMA ReportOfHandsOver ==
  ASSUME RangeInv, ReportInv, OnReport, NEW c \in calls, c.kind \in {"restore", "start"}, c.got # None,
         BeginsPolling(c), past' = Knows(c), calls' = calls \ {c}, UNCHANGED <<data, mounted>>
  PROVE  RangeInv' /\ ReportInv' /\ page' = page
  <1>1. page = "report"
    BY DEF OnReport
  <1>2. ServedInv /\ ChainInv /\ FollowedInv /\ LastRunInv
    BY <1>1 DEF ReportInv
  <1>3. /\ past' \in Pasts /\ past'.known = (IF c.got.run > past.known THEN c.got.run ELSE past.known)
        /\ past'.excused = past.excused
        /\ past'.tangled <=> past.tangled \/ \E d \in calls \ {c} : d.kind \in {"restore", "start"}
    BY <1>1, KnowsSays
  <1>4. /\ shown' = c.got /\ timer' \in Timers \union {None} /\ generation' \in Nat /\ generation' >= generation
        /\ c.got.run = 0 => UNCHANGED <<timer, generation>>
        /\ c.got.run # 0 =>
             /\ generation' = Cancelled
             /\ timer' # None => timer'.run = c.got.run /\ timer'.number = Cancelled
             /\ timer' = None => c.got.over
    BY <1>1, BeginsSays
  <1>5. c.got \in Run /\ c.got.run \in Nat /\ past.known \in Nat /\ data.run \in Nat /\ Fits(calls')
    BY <1>1, OfReports, RunIs, OneLess
  <1>6. RangeInv' /\ page' = page
    BY <1>1, <1>3, <1>4, <1>5, OfReports, ReportTypes DEF RangeInv
  <1>7. Serves(c) /\ Begun(c.got) /\ c.got.run <= data.run
    BY <1>2 DEF ServedInv, Serves
  <1>8. ServedInv'
    <2>1. \A d \in calls' : Serves(d)'
      BY <1>1, <1>2, <1>4, ServedStays
    <2>2. past'.known <= data'.run
      BY <1>2, <1>3, <1>5, <1>7 DEF ServedInv
    <2>3. Begun(data)' /\ Begun(shown)'
      BY <1>2, <1>4, <1>7 DEF ServedInv, Begun
    <2> QED BY <2>1, <2>2, <2>3 DEF ServedInv
  <1>9. c.got.run # 0 => \A d \in calls : ~ Follows(d)'
    BY <1>1, <1>2, <1>4, NobodyFollows DEF Follows
  <1>10. ChainInv'
    <2>1. CASE c.got.run = 0
      BY <1>2, <1>4, <2>1 DEF ChainInv, Follows
    <2>2. CASE c.got.run # 0
      BY <1>2, <1>4, <1>9, <2>2 DEF ChainInv
    <2> QED BY <2>1, <2>2
  <1>11. FollowedInv'
    BY <1>4, <1>7 DEF FollowedInv, Begun
  <1>12. LastRunInv'
    <2> SUFFICES ASSUME ~ past'.tangled
                 PROVE  /\ shown'.run = past'.known
                        /\ timer' # None => timer'.run = shown'.run
                        /\ \A d \in calls' : Follows(d)' => d.run = shown'.run
                        /\ \A d \in calls' : ~ d.kind \in {"restore", "start"}
      BY DEF LastRunInv
    <2>1. ~ past.tangled /\ \A d \in calls' : ~ d.kind \in {"restore", "start"}
      BY <1>3
    <2>2. shown.run = past.known /\ c.got.run >= past.known
      BY <1>2, <2>1 DEF LastRunInv
    <2>3. shown'.run = past'.known
      BY <1>3, <1>4, <1>5, <2>2
    <2>4. CASE c.got.run = 0
      <3>1. shown.run = 0
        BY <1>5, <2>2, <2>4
      <3>2. timer' = None
        <4>1. timer # None => timer.run = 0 /\ timer \in Timers
          BY <1>1, <1>2, <2>1, <3>1, OfReports DEF LastRunInv
        <4> QED BY <1>4, <2>4, <4>1, TimerIs
      <3>3. \A d \in calls : ~ Follows(d)
        BY <1>2, <2>1, <3>1 DEF LastRunInv, ServedInv, Serves, Follows
      <3>4. \A d \in calls : ~ Follows(d)'
        BY <1>4, <2>4, <3>3 DEF Follows
      <3> QED BY <2>1, <2>3, <3>2, <3>4
    <2>5. CASE c.got.run # 0
      BY <1>4, <1>9, <2>1, <2>3, <2>5
    <2> QED BY <2>4, <2>5
  <1> QED BY <1>6, <1>8, <1>10, <1>11, <1>12 DEF ReportInv

\* A call that is over and changed nothing.
LEMMA ReportOfLess ==
  ASSUME RangeInv, ReportInv, OnReport, NEW c \in calls, c.kind # "poll" \/ ~ Follows(c), calls' = calls \ {c},
         past' \in Pasts, past'.known = past.known, past'.tangled = past.tangled,
         past.excused => past'.excused, c.kind = "restore" => past'.excused,
         UNCHANGED <<data, shown, timer, generation, mounted>>
  PROVE  RangeInv' /\ ReportInv' /\ page' = page
  <1>1. page = "report"
    BY DEF OnReport
  <1>2. ServedInv /\ ChainInv /\ FollowedInv /\ LastRunInv
    BY <1>1 DEF ReportInv
  <1>3. Fits(calls')
    BY <1>1, OfReports, OneLess
  <1>4. RangeInv' /\ page' = page
    BY <1>1, <1>3, OfReports, ReportTypes DEF RangeInv
  <1>5. ServedInv'
    BY <1>2 DEF ServedInv, Serves, Begun
  <1>6. ChainInv' /\ LastRunInv'
    BY <1>2 DEF ChainInv, LastRunInv, Follows
  <1>7. FollowedInv'
    BY <1>2 DEF FollowedInv, Follows
  <1> QED BY <1>4, <1>5, <1>6, <1>7 DEF ReportInv

LEMMA ReportOfRestores ==
  ASSUME RangeInv, ReportInv, NEW c \in calls, Restores(c)
  PROVE  RangeInv' /\ ReportInv' /\ page' = page
  <1>1. OnReport /\ page = "report" /\ c.kind = "restore" /\ c.at = "answered" /\ calls' = calls \ {c}
        /\ UNCHANGED <<data, mounted>>
    BY DEF Restores, OnReport
  <1>2. CASE BeginsPolling(c) /\ past' = Knows(c)
    <2>1. c.got # None
      BY <1>1 DEF ReportInv, ServedInv, Serves
    <2> QED BY <1>1, <1>2, <2>1, ReportOfHandsOver
  <1>3. CASE past' = [Counts(past) EXCEPT !.excused = TRUE] /\ UNCHANGED <<shown, timer, generation>>
    <2>1. past' \in Pasts /\ past'.known = past.known /\ past'.tangled = past.tangled /\ past'.excused
      BY <1>1, <1>3, OfReports, FailsTo
    <2> QED BY <1>1, <1>3, <2>1, ReportOfLess
  <1> QED BY <1>2, <1>3 DEF Restores

LEMMA ReportOfStarted ==
  ASSUME RangeInv, ReportInv, NEW c \in calls, Started(c)
  PROVE  RangeInv' /\ ReportInv' /\ page' = page
  <1>1. OnReport /\ page = "report" /\ c.kind = "start" /\ calls' = calls \ {c} /\ UNCHANGED <<data, mounted>>
    BY DEF Started, OnReport
  <1>2. CASE c.got # None /\ BeginsPolling(c) /\ past' = Knows(c)
    BY <1>1, <1>2, ReportOfHandsOver
  <1>3. CASE past' \in {past, Counts(past)} /\ UNCHANGED <<shown, timer, generation>>
    <2>1. past' \in Pasts /\ past'.known = past.known /\ past'.tangled = past.tangled
          /\ past'.excused = past.excused
      BY <1>1, <1>3, OfReports, CountsTo
    <2> QED BY <1>1, <1>3, <2>1, ReportOfLess
  <1> QED BY <1>2, <1>3 DEF Started

\* A current poll is the chain: what follows it is a timer for its run, or the end of the run.
LEMMA ReportOfGoesOn ==
  ASSUME RangeInv, ReportInv, OnReport, NEW c \in calls, c.kind = "poll", Current(c), calls' = calls \ {c},
         past' \in Pasts, past'.known = past.known, past'.tangled = past.tangled, past'.excused = past.excused,
         UNCHANGED <<data, generation, mounted>>,
         \/ c.got # None /\ shown' = c.got /\ (IF c.got.over THEN timer' = timer ELSE Arms(c.run, c.number))
         \/ shown' = shown /\ Arms(c.run, c.number)
  PROVE  RangeInv' /\ ReportInv' /\ page' = page
  <1>1. page = "report"
    BY DEF OnReport
  <1>2. ServedInv /\ ChainInv /\ FollowedInv /\ LastRunInv
    BY <1>1 DEF ReportInv
  <1>3. /\ c.number \in Nat /\ c.run \in 0..MaxChanges /\ c.number = generation /\ Serves(c) /\ c.run # 0
        /\ c.run \in 1..MaxChanges /\ Follows(c) /\ timer = None
    BY <1>1, <1>2, OfReports, NoneApart DEF Current, ServedInv, Serves, ChainInv, Follows
  <1>4. \A d \in calls' : ~ Follows(d)
    BY <1>2, <1>3 DEF ChainInv, Follows
  <1>5. Fits(calls')
    BY <1>1, OfReports, OneLess
  <1>6. /\ shown' \in Run /\ Begun(shown') /\ timer' \in Timers \union {None}
        /\ timer' # None => timer'.run = c.run /\ timer'.number = generation
        /\ timer' = None => shown'.over
        /\ shown' = shown \/ shown'.run = c.run
    <2>1. CASE c.got # None /\ shown' = c.got /\ c.got.over /\ timer' = timer
      BY <1>1, <1>3, <2>1, OfReports DEF Serves
    <2>2. CASE c.got # None /\ shown' = c.got /\ Arms(c.run, c.number)
      <3>1. timer' \in Timers /\ timer'.run = c.run /\ timer'.number = c.number /\ timer' # None
        BY <1>3, <2>2, ArmsTo, NoneIsNoTimer
      <3> QED BY <1>1, <1>3, <2>2, <3>1, OfReports DEF Serves
    <2>3. CASE shown' = shown /\ Arms(c.run, c.number)
      <3>1. timer' \in Timers /\ timer'.run = c.run /\ timer'.number = c.number /\ timer' # None
        BY <1>3, <2>3, ArmsTo, NoneIsNoTimer
      <3> QED BY <1>1, <1>2, <1>3, <2>3, <3>1, OfReports DEF ServedInv
    <2> QED BY <2>1, <2>2, <2>3
  <1>7. RangeInv' /\ page' = page
    BY <1>1, <1>5, <1>6, OfReports, ReportTypes DEF RangeInv
  <1>8. ServedInv'
    BY <1>2, <1>6 DEF ServedInv, Serves, Begun
  <1>9. ChainInv'
    BY <1>2, <1>4, <1>6 DEF ChainInv, Follows
  <1>10. FollowedInv'
    BY <1>6 DEF FollowedInv
  <1>11. LastRunInv'
    BY <1>2, <1>3, <1>4, <1>6 DEF LastRunInv, Follows
  <1> QED BY <1>7, <1>8, <1>9, <1>10, <1>11 DEF ReportInv

LEMMA ReportOfPolled ==
  ASSUME RangeInv, ReportInv, NEW c \in calls, Polled(c)
  PROVE  RangeInv' /\ ReportInv' /\ page' = page
  <1>1. OnReport /\ page = "report" /\ c.kind = "poll" /\ calls' = calls \ {c}
        /\ UNCHANGED <<data, generation, mounted>>
    BY DEF Polled, OnReport
  <1>2. past \in Pasts
    BY <1>1, OfReports
  <1>3. CASE ~ Current(c) /\ UNCHANGED <<shown, timer, past>>
    <2>1. ~ Follows(c)
      BY <1>3 DEF Current, Follows
    <2> QED BY <1>1, <1>2, <1>3, <2>1, ReportOfLess
  <1>4. CASE /\ Current(c) /\ c.got # None /\ Shows(c.got) /\ past' = past
             /\ IF c.got.over THEN timer' = timer ELSE Arms(c.run, c.number)
    BY <1>1, <1>2, <1>4, ReportOfGoesOn DEF Shows
  <1>5. CASE Current(c) /\ past' \in {past, Counts(past)} /\ shown' = shown /\ Retries(c)
    <2>1. past' \in Pasts /\ past'.known = past.known /\ past'.tangled = past.tangled
          /\ past'.excused = past.excused
      BY <1>2, <1>5, CountsTo
    <2> QED BY <1>1, <1>5, <2>1, ReportOfGoesOn DEF Retries
  <1> QED BY <1>3, <1>4, <1>5 DEF Polled

LEMMA ReportOfStep ==
  ASSUME RangeInv, ReportInv, ReportStep
  PROVE  RangeInv' /\ ReportInv' /\ page' = page /\ page = "report"
  <1>1. RangeInv' /\ ReportInv' /\ page' = page
    BY ReportOfRunEnds, ReportOfStartsElsewhere, ReportOfMounts, ReportOfUnmounts, ReportOfStarts, ReportOfPolls,
       ReportOfServes, ReportOfRestores, ReportOfStarted, ReportOfPolled DEF ReportStep
  <1>2. page = "report"
    BY DEF ReportStep, OnReport, RunEnds, StartsElsewhere, Mounts, Unmounts, Starts, Polls, ServesReport, Restores,
           Started, Polled
  <1> QED BY <1>1, <1>2

--------------------------------------------------------------------------------
(* The judge settings *)

LEMMA FileIs ==
  ASSUME NEW f \in File
  PROVE  f = [limit |-> f.limit, upload |-> f.upload] /\ f.limit \in 0..MaxChanges /\ f.upload \in 0..MaxChanges
  BY DEF File

LEMMA MergedIs ==
  ASSUME NEW c, c.got \in File, c.number \in 0..MaxChanges
  PROVE  Merged(c) \in File /\ Merged(c).limit = c.number /\ Merged(c).upload = c.got.upload
  <1>1. Merged(c) = [limit |-> c.number, upload |-> c.got.upload]
    BY FileIs DEF Merged
  <1> QED BY <1>1, FileIs DEF File

LEMMA InForceIs ==
  ASSUME NEW f \in File
  PROVE  InForce(f) \in File /\ InForce(f).upload = f.upload
  <1>1. f.limit \in 0..MaxChanges /\ f.upload \in 0..MaxChanges /\ MaxChanges \in Nat /\ Ceiling \in Nat
    BY FileIs, BoundsAssumption
  <1>2. (IF f.limit > Ceiling THEN Ceiling ELSE f.limit) \in 0..MaxChanges
    BY <1>1
  <1> QED BY <1>1, <1>2 DEF InForce, File

\* The settings, and the calls for them.
LEMMA OfSettings ==
  ASSUME RangeInv, page = "settings"
  PROVE  /\ data \in File /\ shown \in File \union {None} /\ past \in Pasts /\ calls \subseteq CallRecords /\ Fits(calls)
         /\ drafts \in 1..MaxChanges \union {None} /\ Shape = File
         /\ \A c \in calls : c.got # None => c.got \in File
         /\ \A n \in 1..MaxChanges : n # None /\ n \in Nat /\ n \in 0..MaxChanges
         /\ past.uploaded \in Nat
  <1>1. Shape = File /\ Showable = File \union {None}
    BY ShapeIs
  <1>2. calls \subseteq CallRecords /\ past \in Pasts
    BY DEF RangeInv
  <1>3. \A c \in calls : c.got \in {None} \union File
    BY <1>1, <1>2, CallOf
  <1>4. past.uploaded \in Nat
    BY <1>2, PastOf, NoneApart
  <1> QED BY <1>1, <1>2, <1>3, <1>4, NoneApart DEF RangeInv, Fits

\* What keeps the types while the settings are looked at.
LEMMA SettingsTypes ==
  ASSUME RangeInv, OnSettings, data' \in File, shown' \in File \union {None}, calls' \subseteq CallRecords, Fits(calls'),
         drafts' \in 1..MaxChanges \union {None}, past' \in Pasts
  PROVE  RangeInv' /\ page' = page
  <1>1. UNCHANGED <<page, due, timer, generation, mounted>> /\ page = "settings"
    BY DEF OnSettings
  <1>2. Shape' = File /\ Showable' = File \union {None} /\ CallRecords' = CallRecords
    BY <1>1, SamePage, ShapeIs
  <1> QED BY <1>1, <1>2 DEF RangeInv, Fits

LEMMA TypesSays ==
  ASSUME RangeInv, page = "settings", Types
  PROVE  \E n \in 1..MaxChanges :
           /\ drafts' = n /\ past' \in Pasts /\ past'.typed = n /\ (past'.tangled <=> Saving)
           /\ past'.excused = past.excused /\ past'.uploaded = past.uploaded /\ past'.crossed = past.crossed
  <1> DEFINE n == past.changes + 1
             tangled == Saving
  <1>1. past' = [past EXCEPT !.changes = n, !.typed = n, !.tangled = tangled] /\ drafts' = n
        /\ past.changes < MaxChanges
    BY DEF Types
  <1>2. past \in Pasts
    BY DEF RangeInv
  <1>3. n \in 1..MaxChanges /\ n \in 0..MaxChanges /\ tangled \in BOOLEAN /\ (tangled <=> Saving)
    BY <1>1, <1>2, PastOf, NoneApart DEF Saving
  <1> HIDE DEF n, tangled
  <1>4. past' = PastWith(n, past.failures, past.told, tangled, past.excused, past.known, n, past.uploaded, past.crossed)
    BY <1>1, <1>2, TypedSet
  <1>5. past' \in Pasts /\ past'.typed = n /\ past'.tangled = tangled /\ past'.excused = past.excused
        /\ past'.uploaded = past.uploaded /\ past'.crossed = past.crossed
    BY <1>2, <1>3, <1>4, PastOf DEF PastWith, Pasts
  <1> QED BY <1>1, <1>3, <1>5

LEMMA SettingsOfTypes ==
  ASSUME RangeInv, SettingsInv, Types
  PROVE  RangeInv' /\ SettingsInv' /\ page' = page
  <1>1. OnSettings /\ page = "settings" /\ UNCHANGED <<data, shown, calls>>
    BY DEF Types, OnSettings
  <1>2. PICK n \in 1..MaxChanges :
              /\ drafts' = n /\ past' \in Pasts /\ past'.typed = n /\ (past'.tangled <=> Saving)
              /\ past'.excused = past.excused /\ past'.uploaded = past.uploaded /\ past'.crossed = past.crossed
    BY <1>1, TypesSays
  <1>3. RangeInv' /\ page' = page
    BY <1>1, <1>2, OfSettings, SettingsTypes
  <1>4. SeenInv' /\ KeptInv'
    BY <1>1, <1>2 DEF SettingsInv, SeenInv, ServesFile, KeptInv
  <1>5. DraftInv'
    BY <1>1, <1>2 DEF Saving, DraftInv
  <1>6. FreshInv'
    BY <1>1, <1>2 DEF SettingsInv, FreshInv, UpToDate, InForce
  <1> QED BY <1>3, <1>4, <1>5, <1>6 DEF SettingsInv

LEMMA SettingsOfDiscards ==
  ASSUME RangeInv, SettingsInv, Discards
  PROVE  RangeInv' /\ SettingsInv' /\ page' = page
  <1>1. OnSettings /\ page = "settings" /\ UNCHANGED <<data, shown, calls>> /\ drafts' = None
        /\ past' = [past EXCEPT !.typed = None]
    BY DEF Discards, OnSettings
  <1>2. past \in Pasts
    BY DEF RangeInv
  <1>3. past' = PastWith(past.changes, past.failures, past.told, past.tangled, past.excused, past.known, None,
                         past.uploaded, past.crossed)
    BY <1>1, <1>2, DiscardedSet
  <1>4. past' \in Pasts /\ past'.typed = None /\ past'.tangled = past.tangled
        /\ past'.excused = past.excused /\ past'.uploaded = past.uploaded /\ past'.crossed = past.crossed
    BY <1>2, <1>3, PastOf DEF PastWith, Pasts
  <1>5. RangeInv' /\ page' = page
    BY <1>1, <1>4, OfSettings, SettingsTypes
  <1>6. SeenInv' /\ KeptInv' /\ DraftInv'
    BY <1>1, <1>4 DEF SettingsInv, SeenInv, ServesFile, KeptInv, DraftInv
  <1>7. FreshInv'
    BY <1>1, <1>4 DEF SettingsInv, FreshInv, UpToDate, InForce
  <1> QED BY <1>5, <1>6, <1>7 DEF SettingsInv

LEMMA SettingsOfLoads ==
  ASSUME RangeInv, SettingsInv, Loads
  PROVE  RangeInv' /\ SettingsInv' /\ page' = page
  <1> DEFINE c == New("load", Unused, 0)
             crossed == calls # {}
  <1>1. OnSettings /\ page = "settings" /\ Room /\ calls' = calls \union {c}
        /\ past' = [past EXCEPT !.crossed = crossed] /\ UNCHANGED <<data, shown, drafts>>
    BY DEF Loads, OnSettings
  <1>2. c \in CallRecords /\ c.kind = "load" /\ c.at = "sent" /\ c.got = None
    BY <1>1, NumberIsLeft, NewIs, NoneApart DEF Kinds
  <1>3. crossed \in BOOLEAN /\ (crossed <=> calls # {})
    OBVIOUS
  <1> HIDE DEF c, crossed
  <1>4. past' \in Pasts /\ past'.typed = past.typed /\ past'.tangled = past.tangled
        /\ past'.excused = past.excused /\ past'.uploaded = past.uploaded /\ past'.crossed = crossed
    BY <1>1, <1>3, OfSettings, CrossesTo
  <1>5. Fits(calls')
    BY <1>1, OneMore DEF Room, RangeInv
  <1>6. RangeInv' /\ page' = page
    BY <1>1, <1>2, <1>4, <1>5, OfSettings, SettingsTypes DEF RangeInv
  <1>7. SeenInv' /\ KeptInv'
    BY <1>1, <1>2, <1>4 DEF SettingsInv, SeenInv, ServesFile, KeptInv
  <1>8. DraftInv'
    BY <1>1, <1>2, <1>4 DEF SettingsInv, DraftInv
  <1>9. FreshInv'
    <2> SUFFICES ASSUME ~ past'.crossed
                 PROVE  /\ \A x, y \in calls' : x = y
                        /\ \A x \in calls' : x.at = "answered" => UpToDate(x.got)'
                        /\ (\A x \in calls' : x.kind = "save" /\ x.at # "answered") => UpToDate(shown)'
      BY DEF FreshInv
    <2>1. calls' = {c}
      BY <1>1, <1>3, <1>4
    <2> QED BY <1>2, <2>1
  <1> QED BY <1>6, <1>7, <1>8, <1>9 DEF SettingsInv

LEMMA SettingsOfServes ==
  ASSUME RangeInv, SettingsInv, NEW c \in calls, ServesSettings(c)
  PROVE  RangeInv' /\ SettingsInv' /\ page' = page
  <1>1. OnSettings /\ page = "settings" /\ calls' = (calls \ {c}) \union {Answer(c, InForce(data))}
        /\ c.kind = "load" /\ UNCHANGED <<data, shown, drafts, past>>
    BY DEF ServesSettings, OnSettings, Returns, Answer
  <1>2. InForce(data) \in File /\ InForce(data).upload = data.upload /\ InForce(data) # None
    BY <1>1, OfSettings, InForceIs, NoneApart
  <1>3. PICK a \in CallRecords : /\ calls' = (calls \ {c}) \union {a}
                                /\ a.kind = "load" /\ a.at = "answered" /\ a.got = InForce(data)
    BY <1>1, <1>2, OfSettings, AnswerIs
  <1>4. Fits(calls')
    BY <1>1, <1>3, OfSettings, OneReplaced
  <1>5. RangeInv' /\ page' = page
    BY <1>1, <1>3, <1>4, OfSettings, SettingsTypes DEF RangeInv
  <1>6. SeenInv' /\ KeptInv'
    BY <1>1, <1>2, <1>3 DEF SettingsInv, SeenInv, ServesFile, KeptInv
  <1>7. DraftInv'
    BY <1>1, <1>3 DEF SettingsInv, DraftInv
  <1>8. FreshInv'
    <2> SUFFICES ASSUME ~ past.crossed PROVE FreshInv'
      BY <1>1 DEF FreshInv
    <2>1. calls' = {a}
      BY <1>1, <1>3 DEF SettingsInv, FreshInv
    <2>2. UpToDate(a.got)'
      BY <1>1, <1>3 DEF UpToDate, InForce
    <2> QED BY <1>3, <2>1, <2>2 DEF FreshInv
  <1> QED BY <1>5, <1>6, <1>7, <1>8 DEF SettingsInv

LEMMA SettingsOfLoaded ==
  ASSUME RangeInv, SettingsInv, NEW c \in calls, Loaded(c)
  PROVE  RangeInv' /\ SettingsInv' /\ page' = page
  <1>1. OnSettings /\ page = "settings" /\ calls' = calls \ {c} /\ c.at = "answered" /\ c.kind = "load"
        /\ UNCHANGED <<data, drafts>>
    BY DEF Loaded, OnSettings
  <1>2. Fits(calls') /\ (~ past.crossed => calls' = {})
    BY <1>1, OfSettings, OneLess DEF SettingsInv, FreshInv
  <1>3. c.got \in File /\ c.got.upload <= past.uploaded /\ (~ past.crossed => UpToDate(c.got))
    BY <1>1, OfSettings DEF SettingsInv, SeenInv, ServesFile, FreshInv
  <1>4. /\ shown' \in {c.got, None}
        /\ past' \in Pasts /\ past'.typed = past.typed /\ past'.tangled = past.tangled
        /\ past'.excused = past.excused /\ past'.uploaded = past.uploaded /\ past'.crossed = past.crossed
    <2>1. CASE shown' = c.got /\ past' = past
      BY <1>1, <2>1, OfSettings
    <2>2. CASE shown' = Cleared /\ past' = Counts(past)
      BY <1>1, <2>2, OfSettings, CountsTo DEF Cleared
    <2> QED BY <2>1, <2>2 DEF Loaded
  <1>5. RangeInv' /\ page' = page
    BY <1>1, <1>2, <1>3, <1>4, OfSettings, SettingsTypes DEF RangeInv
  <1>6. SeenInv' /\ KeptInv'
    BY <1>1, <1>3, <1>4 DEF SettingsInv, SeenInv, ServesFile, KeptInv
  <1>7. DraftInv'
    BY <1>1, <1>4 DEF SettingsInv, DraftInv
  <1>8. FreshInv'
    BY <1>1, <1>2, <1>3, <1>4 DEF FreshInv, UpToDate, InForce
  <1> QED BY <1>5, <1>6, <1>7, <1>8 DEF SettingsInv

LEMMA SettingsOfSaves ==
  ASSUME RangeInv, SettingsInv, Saves
  PROVE  RangeInv' /\ SettingsInv' /\ page' = page
  <1> DEFINE c == New("save", drafts, 0)
             crossed == past.crossed \/ calls # {}
  <1>1. OnSettings /\ page = "settings" /\ Room /\ calls' = calls \union {c} /\ drafts # None /\ ~ Saving
        /\ past' = [past EXCEPT !.crossed = crossed] /\ UNCHANGED <<data, shown, drafts>>
    BY DEF Saves, OnSettings
  <1>2. drafts \in 1..MaxChanges /\ drafts \in Nat
    BY <1>1, OfSettings
  <1>3. c \in CallRecords /\ c.kind = "save" /\ c.at = "sent" /\ c.number = drafts /\ c.got = None
    BY <1>2, NewIs, NoneApart DEF Kinds
  <1>4. crossed \in BOOLEAN /\ (~ crossed => ~ past.crossed /\ calls = {})
    OBVIOUS
  <1> HIDE DEF c, crossed
  <1>5. past' \in Pasts /\ past'.typed = past.typed /\ past'.tangled = past.tangled
        /\ past'.excused = past.excused /\ past'.uploaded = past.uploaded /\ past'.crossed = crossed
    BY <1>1, <1>4, OfSettings, CrossesTo
  <1>6. Fits(calls')
    BY <1>1, OneMore DEF Room, RangeInv
  <1>7. RangeInv' /\ page' = page
    BY <1>1, <1>3, <1>5, <1>6, OfSettings, SettingsTypes DEF RangeInv
  <1>8. SeenInv' /\ KeptInv'
    BY <1>1, <1>2, <1>3, <1>5 DEF SettingsInv, SeenInv, ServesFile, KeptInv, Saving
  <1>9. DraftInv'
    BY <1>1, <1>3, <1>5 DEF SettingsInv, DraftInv, Saving
  <1>10. FreshInv'
    <2> SUFFICES ASSUME ~ past'.crossed PROVE FreshInv'
      BY DEF FreshInv
    <2>1. calls' = {c} /\ calls = {} /\ ~ past.crossed
      BY <1>1, <1>4, <1>5
    <2>2. UpToDate(shown)
      BY <1>1, <2>1 DEF SettingsInv, FreshInv
    <2>3. UpToDate(shown)'
      BY <1>1, <2>2 DEF UpToDate, InForce
    <2> QED BY <1>3, <2>1, <2>3 DEF FreshInv
  <1> QED BY <1>7, <1>8, <1>9, <1>10 DEF SettingsInv

\* An upload has fallen after the save that is answered has written, or there is nothing to replace.
Taken == drafts = None \/ \E c \in calls : c.kind = "save" /\ c.at = "answered"

LEMMA UploadsSays ==
  ASSUME RangeInv, page = "settings", Uploads
  PROVE  /\ data' \in File /\ data'.upload = past'.uploaded /\ past' \in Pasts
         /\ past'.typed = (IF Taken THEN None ELSE past.typed) /\ past'.uploaded = past.uploaded + 1
         /\ past'.tangled = past.tangled /\ ~ past'.excused /\ past'.crossed = past.crossed
  <1> DEFINE n == past.uploaded + 1
             no == FALSE
             typed == IF Taken THEN None ELSE past.typed
  <1>1. past' = [past EXCEPT !.uploaded = n, !.excused = no, !.typed = typed] /\ data' = [limit |-> 0, upload |-> n]
        /\ past.uploaded < MaxChanges
    BY DEF Uploads, Taken
  <1>2. past \in Pasts
    BY DEF RangeInv
  <1>3. n \in 0..MaxChanges /\ no \in BOOLEAN /\ ~ no /\ n = past.uploaded + 1
    BY <1>1, <1>2, PastOf, NoneApart
  <1>4. typed \in 1..MaxChanges \union {None} /\ typed = (IF Taken THEN None ELSE past.typed)
    BY <1>2, PastOf
  <1> HIDE DEF n, no, typed
  <1>5. past' = PastWith(past.changes, past.failures, past.told, past.tangled, no, past.known, typed, n, past.crossed)
    BY <1>1, <1>2, UploadedSet
  <1>6. past' \in Pasts /\ past'.typed = typed /\ past'.tangled = past.tangled /\ past'.excused = no
        /\ past'.uploaded = n /\ past'.crossed = past.crossed
    BY <1>2, <1>3, <1>4, <1>5, PastOf DEF PastWith, Pasts
  <1>7. data' \in File /\ data'.upload = n
    BY <1>1, <1>3, NoneApart DEF File
  <1> QED BY <1>3, <1>4, <1>6, <1>7

LEMMA SettingsOfUploads ==
  ASSUME RangeInv, SettingsInv, Uploads
  PROVE  RangeInv' /\ SettingsInv' /\ page' = page
  <1>1. OnSettings /\ page = "settings" /\ UNCHANGED <<shown, calls, drafts>>
    BY DEF Uploads, OnSettings
  <1>2. /\ data' \in File /\ data'.upload = past'.uploaded /\ past' \in Pasts
        /\ past'.typed = (IF Taken THEN None ELSE past.typed) /\ past'.uploaded = past.uploaded + 1
        /\ past'.tangled = past.tangled /\ ~ past'.excused /\ past'.crossed = past.crossed
    BY <1>1, UploadsSays
  <1>3. RangeInv' /\ page' = page
    BY <1>1, <1>2, OfSettings, SettingsTypes
  <1>4. /\ past.uploaded \in Nat /\ SeenInv /\ DraftInv /\ FreshInv
        /\ \A f \in File : f.upload \in Nat
    BY <1>1, OfSettings, FileIs, NoneApart DEF SettingsInv
  <1>5. \A f \in File : f.upload <= past.uploaded => f.upload <= past'.uploaded /\ f.upload # data'.upload
    BY <1>2, <1>4
  <1>6. SeenInv'
    <2>1. data'.upload <= past'.uploaded
      BY <1>2, <1>4
    <2>2. shown # None => shown'.upload <= past'.uploaded
      BY <1>1, <1>4, <1>5, OfSettings DEF SeenInv
    <2>3. ASSUME NEW c \in calls PROVE ServesFile(c)'
      BY <1>1, <1>4, <1>5, OfSettings DEF SeenInv, ServesFile
    <2> QED BY <1>1, <1>4, <2>1, <2>2, <2>3 DEF SeenInv
  <1>7. KeptInv'
    BY <1>2 DEF KeptInv
  <1>8. DraftInv'
    BY <1>1, <1>2, <1>4 DEF DraftInv, Taken
  <1>9. FreshInv'
    <2>1. ASSUME NEW c \in calls, c.at = "answered" PROVE UpToDate(c.got)'
      BY <1>1, <1>4, <1>5, <2>1, OfSettings DEF SeenInv, ServesFile, UpToDate
    <2>2. UpToDate(shown)'
      BY <1>1, <1>4, <1>5, OfSettings DEF SeenInv, UpToDate
    <2> QED BY <1>1, <1>2, <1>4, <2>1, <2>2 DEF FreshInv
  <1> QED BY <1>3, <1>6, <1>7, <1>8, <1>9 DEF SettingsInv

LEMMA SettingsOfReadsFile ==
  ASSUME RangeInv, SettingsInv, NEW c \in calls, ReadsFile(c)
  PROVE  RangeInv' /\ SettingsInv' /\ page' = page
  <1> DEFINE r == Read(c, data)
  <1>1. OnSettings /\ page = "settings" /\ calls' = (calls \ {c}) \union {r} /\ c.kind = "save" /\ c.at = "sent"
        /\ UNCHANGED <<data, shown, drafts, past>>
    BY DEF ReadsFile, OnSettings, Read
  <1>2. r \in CallRecords /\ r.kind = c.kind /\ r.at = "read" /\ r.number = c.number /\ r.got = data /\ data # None
    BY <1>1, OfSettings, ReadIs, NoneApart
  <1> HIDE DEF r
  <1>3. Fits(calls')
    BY <1>1, OfSettings, OneReplaced
  <1>4. RangeInv' /\ page' = page
    BY <1>1, <1>2, <1>3, OfSettings, SettingsTypes DEF RangeInv
  <1>5. SeenInv' /\ KeptInv'
    BY <1>1, <1>2 DEF SettingsInv, SeenInv, ServesFile, KeptInv
  <1>6. DraftInv'
    BY <1>1, <1>2 DEF SettingsInv, DraftInv
  <1>7. FreshInv'
    <2> SUFFICES ASSUME ~ past.crossed PROVE FreshInv'
      BY <1>1 DEF FreshInv
    <2>1. calls' = {r} /\ calls = {c}
      BY <1>1 DEF SettingsInv, FreshInv
    <2>2. UpToDate(shown)
      BY <1>1, <2>1 DEF SettingsInv, FreshInv
    <2>3. UpToDate(shown)'
      BY <1>1, <2>2 DEF UpToDate, InForce
    <2> QED BY <1>2, <2>1, <2>3 DEF FreshInv
  <1> QED BY <1>4, <1>5, <1>6, <1>7 DEF SettingsInv

LEMMA SettingsOfWritesFile ==
  ASSUME RangeInv, SettingsInv, NEW c \in calls, WritesFile(c)
  PROVE  RangeInv' /\ SettingsInv' /\ page' = page
  <1> DEFINE file == Merged(c)
             a == Answer(c, InForce(file))
             excused == past.excused \/ data.upload # c.got.upload
  <1>1. OnSettings /\ page = "settings" /\ calls' = (calls \ {c}) \union {a} /\ data' = file /\ c.at = "read"
        /\ c.kind = "save" /\ past' = [past EXCEPT !.excused = excused] /\ UNCHANGED <<shown, drafts>>
    BY DEF WritesFile, OnSettings, Returns, Answer
  <1>2. c.got \in File /\ c.number \in 1..MaxChanges /\ c.number \in 0..MaxChanges /\ c.got.upload <= past.uploaded
    BY <1>1, OfSettings DEF SettingsInv, SeenInv, ServesFile
  <1>3. file \in File /\ file.limit = c.number /\ file.upload = c.got.upload
    BY <1>2, MergedIs
  <1>4. InForce(file) \in File /\ InForce(file).upload = file.upload /\ InForce(file) # None
    BY <1>3, InForceIs, NoneApart
  <1>5. a \in CallRecords /\ a.kind = c.kind /\ a.at = "answered" /\ a.number = c.number /\ a.got = InForce(file)
    BY <1>1, <1>4, OfSettings, AnswerIs
  <1>6. excused \in BOOLEAN /\ (~ excused => ~ past.excused /\ data.upload = c.got.upload)
    OBVIOUS
  <1> HIDE DEF a, excused, file
  <1>7. past' \in Pasts /\ past'.typed = past.typed /\ past'.tangled = past.tangled /\ past'.excused = excused
        /\ past'.uploaded = past.uploaded /\ past'.crossed = past.crossed
    BY <1>1, <1>6, OfSettings, ExcusesTo
  <1>8. Fits(calls')
    BY <1>1, OfSettings, OneReplaced
  <1>9. RangeInv' /\ page' = page
    BY <1>1, <1>3, <1>5, <1>7, <1>8, OfSettings, SettingsTypes DEF RangeInv
  <1>10. SeenInv'
    BY <1>1, <1>2, <1>3, <1>4, <1>5, <1>7 DEF SettingsInv, SeenInv, ServesFile
  <1>11. KeptInv'
    BY <1>1, <1>3, <1>6, <1>7 DEF SettingsInv, KeptInv
  <1>12. DraftInv'
    <2>1. \A x \in calls' : x.kind = "save" => x = a
      BY <1>1, <1>5 DEF SettingsInv, SeenInv
    <2> QED BY <1>1, <1>3, <1>5, <1>7, <2>1 DEF SettingsInv, DraftInv
  <1>13. FreshInv'
    <2> SUFFICES ASSUME ~ past.crossed PROVE FreshInv'
      BY <1>7 DEF FreshInv
    <2>1. calls' = {a}
      BY <1>1 DEF SettingsInv, FreshInv
    <2>2. UpToDate(a.got)'
      BY <1>1, <1>5 DEF UpToDate, InForce
    <2> QED BY <1>5, <2>1, <2>2 DEF FreshInv
  <1> QED BY <1>9, <1>10, <1>11, <1>12, <1>13 DEF SettingsInv

LEMMA SettingsOfSaved ==
  ASSUME RangeInv, SettingsInv, NEW c \in calls, Saved(c)
  PROVE  RangeInv' /\ SettingsInv' /\ page' = page
  <1>1. OnSettings /\ page = "settings" /\ calls' = calls \ {c} /\ c.kind = "save" /\ data' = data
    BY DEF Saved, OnSettings
  <1>2. Fits(calls') /\ (~ past.crossed => calls' = {} /\ calls = {c}) /\ \A x \in calls' : x.kind # "save"
    BY <1>1, OfSettings, OneLess DEF SettingsInv, SeenInv, FreshInv
  <1>3. SeenInv /\ DraftInv /\ FreshInv /\ KeptInv
    BY <1>1 DEF SettingsInv
  <1>4. CASE c.at = "answered" /\ shown' = Applied(c) /\ drafts' = Kept(TRUE) /\ past' = past
    <2>1. drafts' = None /\ shown' = c.got /\ c.got \in File
      BY <1>1, <1>3, <1>4, OfSettings DEF Kept, Applied, SeenInv, ServesFile
    <2>2. RangeInv' /\ page' = page
      BY <1>1, <1>2, <1>4, <2>1, OfSettings, SettingsTypes DEF RangeInv
    <2>3. SeenInv' /\ KeptInv'
      BY <1>1, <1>3, <1>4, <2>1 DEF SeenInv, ServesFile, KeptInv
    <2>4. DraftInv'
      BY <1>1, <1>2, <1>3, <1>4, <2>1 DEF DraftInv
    <2>5. FreshInv'
      BY <1>1, <1>2, <1>3, <1>4, <2>1 DEF FreshInv, UpToDate, InForce
    <2> QED BY <2>2, <2>3, <2>4, <2>5 DEF SettingsInv
  <1>5. CASE /\ shown' = shown /\ drafts' = Kept(FALSE)
             /\ past' = [Counts(past) EXCEPT !.crossed = Counts(past).crossed \/ c.at = "answered"]
    <2> DEFINE crossed == past.crossed \/ c.at = "answered"
    <2>1. drafts' = drafts
      BY <1>5 DEF Kept
    <2>2. Counts(past) \in Pasts /\ Counts(past).typed = past.typed /\ Counts(past).tangled = past.tangled
          /\ Counts(past).excused = past.excused /\ Counts(past).uploaded = past.uploaded
          /\ Counts(past).crossed = past.crossed
      BY <1>1, OfSettings, CountsTo
    <2>3. crossed \in BOOLEAN /\ (~ crossed => ~ past.crossed /\ c.at # "answered")
          /\ past' = [Counts(past) EXCEPT !.crossed = crossed]
      BY <1>5, <2>2
    <2> HIDE DEF crossed
    <2>4. past' \in Pasts /\ past'.typed = past.typed /\ past'.tangled = past.tangled
          /\ past'.excused = past.excused /\ past'.uploaded = past.uploaded /\ past'.crossed = crossed
      BY <2>2, <2>3, CrossesTo
    <2>5. RangeInv' /\ page' = page
      BY <1>1, <1>2, <1>5, <2>1, <2>4, OfSettings, SettingsTypes DEF RangeInv
    <2>6. SeenInv' /\ KeptInv'
      BY <1>1, <1>3, <1>5, <2>4 DEF SeenInv, ServesFile, KeptInv
    <2>7. DraftInv'
      BY <1>1, <1>3, <2>1, <2>4 DEF DraftInv
    <2>8. FreshInv'
      <3> SUFFICES ASSUME ~ past'.crossed PROVE FreshInv'
        BY DEF FreshInv
      <3>1. calls' = {} /\ calls = {c} /\ ~ past.crossed /\ c.at # "answered"
        BY <1>2, <2>3, <2>4
      <3>2. UpToDate(shown)
        BY <1>1, <1>3, <3>1 DEF FreshInv
      <3>3. UpToDate(shown)'
        BY <1>1, <1>5, <3>2 DEF UpToDate, InForce
      <3> QED BY <3>1, <3>3 DEF FreshInv
    <2> QED BY <2>5, <2>6, <2>7, <2>8 DEF SettingsInv
  <1> QED BY <1>4, <1>5 DEF Saved

LEMMA SettingsOfStep ==
  ASSUME RangeInv, SettingsInv, SettingsStep
  PROVE  RangeInv' /\ SettingsInv' /\ page' = page /\ page = "settings"
  <1>1. RangeInv' /\ SettingsInv' /\ page' = page
    BY SettingsOfTypes, SettingsOfDiscards, SettingsOfLoads, SettingsOfSaves, SettingsOfUploads,
       SettingsOfServes, SettingsOfLoaded, SettingsOfReadsFile, SettingsOfWritesFile, SettingsOfSaved DEF SettingsStep
  <1>2. page = "settings"
    BY DEF SettingsStep, OnSettings, Loads, Types, Discards, Saves, Uploads, ServesSettings, Loaded, ReadsFile,
           WritesFile, Saved
  <1> QED BY <1>1, <1>2

--------------------------------------------------------------------------------
(* All of it *)

PageInv == RangeInv /\ ListInv /\ ReportInv /\ SettingsInv

LEMMA InitPage == Init => PageInv
  <1> SUFFICES ASSUME Init PROVE PageInv
    OBVIOUS
  <1>1. /\ page \in Pages /\ shown = (IF page = "settings" THEN None ELSE data) /\ calls = {} /\ due = 0 /\ timer = None /\ generation = 0 /\ drafts = None
        /\ mounted = FALSE
    BY DEF Init
  <1>2. /\ page \in Lists => data = 0
        /\ page = "report" => data = [run |-> 0, over |-> TRUE]
        /\ page = "settings" => data = [limit |-> 0, upload |-> 0]
    BY ListsAre DEF Init
  <1> DEFINE no == FALSE
             yes == TRUE
  <1>3. past = PastWith(0, 0, 0, no, no, 0, None, 0, no) /\ (page = "report" => data = [run |-> 0, over |-> yes])
    BY <1>2 DEF Init, PastWith
  <1>4. no \in BOOLEAN /\ ~ no /\ yes \in BOOLEAN /\ yes
    OBVIOUS
  <1> HIDE DEF no, yes
  <1>5. /\ past \in Pasts /\ past.changes = 0 /\ past.told = 0 /\ ~ past.tangled /\ ~ past.excused /\ past.known = 0
        /\ past.typed = None /\ past.uploaded = 0 /\ ~ past.crossed
    BY <1>3, <1>4, NoneApart DEF PastWith, Pasts
  <1>6. data \in Shape /\ shown \in Showable
    <2>1. CASE page \in Lists
      BY <1>1, <1>2, <2>1, ShapeIs, ListsAre, NoneApart
    <2>2. CASE page = "report"
      <3>1. 0 \in 0..MaxChanges
        BY NoneApart
      <3>2. [run |-> 0, over |-> yes] \in Run
        BY <1>4, <3>1, Zenon DEF Run
      <3>3. data \in Run
        BY <1>3, <2>2, <3>2
      <3> QED BY <1>1, <2>2, <3>3, ShapeIs
    <2>3. CASE page = "settings"
      <3>1. 0 \in 0..MaxChanges
        BY NoneApart
      <3>2. data \in File
        BY <1>2, <2>3, <3>1 DEF File
      <3> QED BY <1>1, <2>3, <3>2, ShapeIs
    <2> QED BY <1>1, <2>1, <2>2, <2>3 DEF Pages
  <1>7. IsFiniteSet(calls) /\ Cardinality(calls) <= MaxCalls
    BY <1>1, FS_EmptySet, NoneApart
  <1>8. RangeInv
    <2>1. shown \in Showable /\ mounted \in BOOLEAN /\ calls \subseteq CallRecords
      BY <1>1, <1>6
    <2>2. due \in 0..MaxChanges /\ generation \in Nat
      BY <1>1, NoneApart
    <2> QED BY <1>1, <1>5, <1>6, <1>7, <2>1, <2>2 DEF RangeInv
  <1>9. ListInv
    BY <1>1, <1>2, <1>5, ListsAre DEF ListInv
  <1>10. ReportInv
    <2> SUFFICES ASSUME page = "report" PROVE ServedInv /\ ChainInv /\ FollowedInv /\ LastRunInv
      BY DEF ReportInv
    <2>1. data.run = 0 /\ data.over
      BY <1>3, <1>4
    <2> QED BY <1>1, <1>5, <2>1 DEF ServedInv, ChainInv, FollowedInv, LastRunInv, Begun
  <1>11. SettingsInv
    BY <1>1, <1>2, <1>5 DEF SettingsInv, SeenInv, DraftInv, FreshInv, KeptInv, UpToDate
  <1> QED BY <1>8, <1>9, <1>10, <1>11 DEF PageInv

\* One page is looked at: the steps of the others are not taken.
LEMMA StepsOfAList ==
  ASSUME RangeInv, ListInv, ReportInv, SettingsInv, ListStep
  PROVE  page \in Lists
  <1>1. ASSUME NEW c \in calls, c.kind = "fetch" PROVE page \in Lists
    BY <1>1, ListsAre DEF RangeInv, Pages, ReportInv, ServedInv, Serves, SettingsInv, SeenInv, ServesFile
  <1> QED BY <1>1 DEF ListStep, Happens, Fetches, ServesList, ShowsList

LEMMA PagesApart ==
  /\ page \in Lists => page # "report" /\ page # "settings"
  BY ListsAre

LEMMA NextPage == PageInv /\ [Next]_vars => PageInv'
  <1> SUFFICES ASSUME PageInv, [Next]_vars PROVE PageInv'
    OBVIOUS
  <1> USE DEF PageInv
  <1>1. CASE ListStep
    <2>1. page \in Lists
      BY <1>1, StepsOfAList
    <2>2. RangeInv' /\ ListInv' /\ page' = page
      BY <1>1, <2>1, ListOfStep
    <2> QED BY <2>1, <2>2, PagesApart DEF ReportInv, SettingsInv
  <1>2. CASE ReportStep
    <2>1. RangeInv' /\ ReportInv' /\ page' = page /\ page = "report"
      BY <1>2, ReportOfStep
    <2>2. ListInv' /\ SettingsInv'
      BY <2>1, ListsAre DEF ListInv, SettingsInv, Lists, Stores
    <2> QED BY <2>1, <2>2
  <1>3. CASE SettingsStep
    <2>1. RangeInv' /\ SettingsInv' /\ page' = page /\ page = "settings"
      BY <1>3, SettingsOfStep
    <2>2. ListInv' /\ ReportInv'
      BY <2>1, ListsAre DEF ListInv, ReportInv, Lists, Stores
    <2> QED BY <2>1, <2>2
  <1>4. CASE UNCHANGED vars
    <2>1. UNCHANGED <<page, data, shown, calls, due, timer, generation, drafts, mounted, past>>
      BY <1>4 DEF vars
    <2>2. RangeInv'
      BY <2>1, SamePage DEF RangeInv, Pasts
    <2>3. ListInv'
      BY <2>1 DEF ListInv, Lists
    <2>4. ReportInv'
      BY <2>1 DEF ReportInv, ServedInv, Begun, Serves, ChainInv, Follows, FollowedInv, LastRunInv
    <2>5. SettingsInv'
      BY <2>1 DEF SettingsInv, SeenInv, ServesFile, DraftInv, FreshInv, UpToDate, KeptInv, InForce
    <2> QED BY <2>2, <2>3, <2>4, <2>5
  <1> QED BY <1>1, <1>2, <1>3, <1>4 DEF Next

\* Whatever the page and however calls, announcements and failures interleave, the page's state is as
\* the four parts say: what the properties below are read off.
THEOREM PageStaysSound == Spec => []PageInv
  BY InitPage, NextPage, PTL DEF Spec

LEMMA TypesOfPage == RangeInv => TypeOK
  <1> SUFFICES ASSUME RangeInv PROVE TypeOK
    OBVIOUS
  <1>1. \A c \in calls : /\ c.kind \in Kinds /\ c.at \in {"sent", "read", "answered"}
                         /\ c.number \in Nat /\ c.run \in 0..MaxChanges /\ c.got \in {None} \union Shape
    BY CallOf DEF RangeInv
  <1> QED BY <1>1 DEF RangeInv, TypeOK

\* The page is one of the console's; and a list at rest shows every change the page was told of, by an
\* announcement or by an answer to its own request, unless two of its fetches overlapped, an alert fell
\* into a fetch, or a fetch failed: for any number of changes, calls and failures
\* (the stores' data-update listeners and fetch functions).
THEOREM ListStaysSound == Spec => []ListIsSound
  <1>1. PageInv => ListIsSound
    <2> SUFFICES ASSUME PageInv PROVE ListIsSound
      OBVIOUS
    <2>1. TypeOK
      BY TypesOfPage DEF PageInv
    <2>2. ListIsFresh
      BY DEF PageInv, ListInv, ListIsFresh
    <2> QED BY <2>1, <2>2 DEF ListIsSound
  <1> QED BY <1>1, PageStaysSound, PTL

\* A page of the report.
LEMMA ChainIsOne ==
  ASSUME RangeInv, ChainInv
  PROVE  /\ Chain \in 0..1
         /\ Chain = 1 <=> timer # None \/ \E c \in calls : Follows(c)
  <1> DEFINE following == {c \in calls : Follows(c)}
  <1>1. Chain = Cardinality(following) + (IF timer = None THEN 0 ELSE 1)
    BY DEF Chain, Follows
  <1>2. CASE following = {}
    <2>1. Cardinality(following) = 0
      BY <1>2, FS_EmptySet
    <2>2. ~ \E c \in calls : Follows(c)
      BY <1>2
    <2> HIDE DEF following
    <2> QED BY <1>1, <2>1, <2>2
  <1>3. CASE following # {}
    <2>1. PICK c \in calls : Follows(c)
      BY <1>3
    <2>2. following = {c}
      BY <2>1 DEF ChainInv, Follows
    <2>3. Cardinality(following) = 1
      BY <2>2, FS_Singleton
    <2>4. timer = None
      BY <2>1 DEF ChainInv
    <2> HIDE DEF following
    <2> QED BY <1>1, <2>1, <2>3, <2>4
  <1> QED BY <1>2, <1>3

\* A report is followed by at most one chain of polls, whatever is mounted, restored, started and torn
\* down; an open page that shows an active run has one, unless the restore at mounting is still out or
\* has failed; and a run once handed over is not replaced by an older one unless two of starts and
\* restores crossed: for any number of runs and of calls in flight
\* (rehearsal.store.ts, deploy-test.store.ts: generation, beginPolling, restoreLatest, start).
THEOREM ReportStaysFollowed == Spec => []ReportIsFollowed
  <1>1. PageInv => ReportIsFollowed
    <2> SUFFICES ASSUME PageInv, page = "report"
                 PROVE  /\ Chain <= 1
                        /\ mounted /\ ~ shown.over /\ ~ past.excused =>
                             Chain = 1 \/ \E c \in calls : c.kind = "restore"
                        /\ ~ past.tangled => shown.run = past.known
      BY DEF ReportIsFollowed
    <2>1. RangeInv /\ ChainInv /\ FollowedInv /\ LastRunInv
      BY DEF PageInv, ReportInv
    <2>2. Chain \in 0..1 /\ (Chain = 1 <=> timer # None \/ \E c \in calls : Follows(c))
      BY <2>1, ChainIsOne
    <2> QED BY <2>1, <2>2 DEF FollowedInv, LastRunInv
  <1> QED BY <1>1, PageStaysSound, PTL

\* What the operator typed last is still in the draft or has reached the configuration, unless it was
\* typed while a save was out or an upload has replaced it since; at rest the page shows no settings or
\* those in force, unless an upload came after its answer, or its calls crossed or a save's answer was
\* lost and it has not loaded them by itself since; and an uploaded configuration stays, unless it fell
\* between the read and the write of a save: for any number of drafts, loads, saves and uploads and any
\* ceiling (judge-settings.store.ts loadSettings, save; admin-judger getSettings, updateSettings).
THEOREM NothingIsEverUndone == Spec => []NothingIsUndone
  <1>1. PageInv => NothingIsUndone
    <2> SUFFICES ASSUME PageInv, page = "settings"
                 PROVE  /\ past.typed # None /\ ~ past.tangled => drafts = past.typed \/ data.limit = past.typed
                        /\ calls = {} /\ ~ past.crossed => UpToDate(shown)
                        /\ ~ past.excused => data.upload = past.uploaded
      BY DEF NothingIsUndone, UpToDate
    <2> QED BY DEF PageInv, SettingsInv, DraftInv, FreshInv, KeptInv
  <1> QED BY <1>1, PageStaysSound, PTL
================================================================================
