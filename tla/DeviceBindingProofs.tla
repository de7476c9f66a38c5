-------------------------- MODULE DeviceBindingProofs --------------------------
(***************************************************************************)
(* Proofs about DeviceBinding for any machines, students, roster, bounds   *)
(* and failures: types and logins for requests that overlap (LoginInv),    *)
(* seats and gate for requests one at a time (OrderInv), and what they     *)
(* implement then (SeatPlan).                                              *)
(***************************************************************************)
EXTENDS DeviceBinding, TLAPS, SequenceTheorems, FiniteSetTheorems, WellFoundedInduction

--------------------------------------------------------------------------------
(* RemoveFirst on sequences *)

\* A set of natural numbers has a least element.
LEMMA MinIsElement ==
  ASSUME NEW I, I \subseteq Nat, I # {}
  PROVE  Min(I) \in I
  <1> DEFINE R == {p \in Nat \X Nat : p[1] < p[2]}
  <1>1. IsWellFoundedOn(R, Nat)
    BY NatLessThanWellFounded DEF OpToRel
  <1>2. PICK m \in I : \A n \in I : <<n, m>> \notin R
    <2> HIDE DEF R
    <2> QED BY <1>1, WFMin
  <1>3. ASSUME NEW n \in I PROVE m <= n
    <2>1. m \in Nat /\ n \in Nat
      OBVIOUS
    <2>2. ~ (n < m)
      BY <1>2, <2>1
    <2> QED BY <2>1, <2>2
  <1> QED BY <1>3 DEF Min

\* What is left of a sequence is a sequence of the same elements.
LEMMA RemoveFirstType ==
  ASSUME NEW S, NEW q \in Seq(S), NEW e
  PROVE  RemoveFirst(q, e) \in Seq(S)
  <1>1. CASE \E i \in 1..Len(q) : q[i] = e
    <2> DEFINE I == {i \in 1..Len(q) : q[i] = e}
    <2>1. I # {} /\ I \subseteq Nat /\ I \subseteq 1..Len(q)
      BY <1>1, LenProperties
    <2>2. Min(I) \in I
      <3> HIDE DEF I
      <3> QED BY <2>1, MinIsElement
    <2>3. RemoveFirst(q, e) = SubSeq(q, 1, Min(I) - 1) \o SubSeq(q, Min(I) + 1, Len(q))
      BY <1>1, <2>1 DEF RemoveFirst, RemoveAt, SelectInSeq
    <2>4. PICK i \in 1..Len(q) : i = Min(I)
      BY <2>1, <2>2
    <2> HIDE DEF I
    <2>5. SubSeq(q, 1, i - 1) \in Seq(S) /\ SubSeq(q, i + 1, Len(q)) \in Seq(S)
      BY LenProperties, SubSeqProperties
    <2> QED BY <2>3, <2>4, <2>5, ConcatProperties
  <1>2. CASE ~ \E i \in 1..Len(q) : q[i] = e
    BY <1>2 DEF RemoveFirst
  <1> QED BY <1>1, <1>2

\* Writing an element of a sequence, or past its end, leaves a sequence.
LEMMA WriteType ==
  ASSUME NEW S, NEW q \in Seq(S), NEW i, NEW e \in S
  PROVE  [q EXCEPT ![i] = e] \in Seq(S)
  <1>1. CASE i \in 1..Len(q)
    BY <1>1, ExceptSeq
  <1>2. CASE i \notin 1..Len(q)
    <2>1. DOMAIN q = 1..Len(q) /\ q = [j \in DOMAIN q |-> q[j]]
      BY LenProperties
    <2>2. [q EXCEPT ![i] = e] = q
      BY <1>2, <2>1
    <2> QED BY <2>2
  <1> QED BY <1>1, <1>2

--------------------------------------------------------------------------------
(* Typing *)

\* What a request carries at each of its calls.
Sound(r) ==
  /\ r \in Requests
  /\ r.at # "idle" => r.device \in Devices
  /\ r.at \in LoginPcs \union {"clearsSeat", "vacates"} => r.student \in Students
  /\ r.at \in ApprovalPcs => r.who \in Holders
  /\ r.entry # 0 => r.who \in Holders

Rows ==
  /\ open \in BOOLEAN
  /\ registered \subseteq Devices
  /\ bound \in [Devices -> Students \union {None}]
  /\ \A d \in Devices \ registered : bound[d] = None
  /\ seat \in [Students -> Devices \union {None}]
  /\ address \in [Students -> Devices \union {None}]
  /\ pass \in [Devices -> Seq(Passes)]
  /\ entry \in [Devices -> Seq(Statuses)]
  /\ leftover \subseteq Devices
  /\ overlapped \in BOOLEAN /\ raced \in BOOLEAN
  /\ failures \in 0..MaxFailures
SoundReqs == req \in [Slots -> Requests] /\ \A x \in Slots : Sound(req[x])
Typed == Rows /\ SoundReqs

\* Every form of request the actions build is sound.
LEMMA SoundForms ==
  ASSUME SoundReqs, NEW x \in Slots
  PROVE  /\ Sound(Idle)
         /\ \A place \in {"creates", "asks", "freesDevice", "destroys"}, d \in Devices : Sound(For(place, d))
         /\ \A d \in Devices, s \in Students : Sound(With("vacates", d, s))
         /\ \A d \in Devices, s \in Students, row \in Passes \union {None} : Sound(Spending(d, s, row))
         /\ \A d \in Devices, s \in Students, i \in Nat, who \in Holders :
              /\ Sound(Approving("clearsDevice", d, s, i, who))
              /\ Sound(Approving("clearsSeat", d, s, i, who))
         /\ \A d \in Devices, i \in Nat, who \in Holders :
              /\ Sound(Approving("clearsDevice", d, None, i, who))
              /\ Sound(Approving("dropsPass", d, None, i, who))
         /\ \A d \in Devices, s \in Students : Sound(Approving("clearsDevice", d, s, 0, None))
                                            /\ Sound(Approving("clearsSeat", d, s, 0, None))
         /\ \A d \in Devices : Sound(Approving("clearsDevice", d, None, 0, None))
  <1> USE DEF Sound, Requests, LoginPcs, RemovalPcs, ApprovalPcs, Holders
  <1>1. Sound(Idle)
    BY DEF Idle
  <1>2. \A place \in {"creates", "asks", "freesDevice", "destroys"}, d \in Devices : Sound(For(place, d))
    BY DEF For, Idle
  <1>3. \A d \in Devices, s \in Students : Sound(With("vacates", d, s))
    BY DEF With, Idle
  <1>4. ASSUME NEW d \in Devices, NEW s \in Students, NEW row \in Passes \union {None}
        PROVE  Sound(Spending(d, s, row))
    BY DEF Spending, Idle
  <1>5. ASSUME NEW place \in {"clearsDevice", "clearsSeat", "dropsPass"}, NEW d \in Devices, NEW i \in Nat,
               NEW s \in Students \union {None}, NEW who \in Holders \union {None},
               place = "clearsSeat" => s \in Students,
               place = "dropsPass" \/ i # 0 => who \in Holders
        PROVE  Sound(Approving(place, d, s, i, who))
    BY <1>5 DEF Approving, Idle
  <1> HIDE DEF Sound, Requests, LoginPcs, RemovalPcs, ApprovalPcs, Holders
  <1>6. ASSUME NEW d \in Devices, NEW s \in Students, NEW i \in Nat, NEW who \in Holders
        PROVE  Sound(Approving("clearsDevice", d, s, i, who)) /\ Sound(Approving("clearsSeat", d, s, i, who))
    BY <1>5
  <1>7. ASSUME NEW d \in Devices, NEW i \in Nat, NEW who \in Holders
        PROVE  Sound(Approving("clearsDevice", d, None, i, who)) /\ Sound(Approving("dropsPass", d, None, i, who))
    BY <1>5
  <1>8. ASSUME NEW d \in Devices, NEW s \in Students
        PROVE  Sound(Approving("clearsDevice", d, s, 0, None)) /\ Sound(Approving("clearsSeat", d, s, 0, None))
    BY <1>5
  <1>9. ASSUME NEW d \in Devices PROVE Sound(Approving("clearsDevice", d, None, 0, None))
    BY <1>5
  <1> QED BY <1>1, <1>2, <1>3, <1>4, <1>6, <1>7, <1>8, <1>9

\* The moves of a request that is under way.
LEMMA SoundMoves ==
  ASSUME SoundReqs, NEW x \in Slots
  PROVE  /\ req[x].at # "idle" => \A place \in {"destroys"} : Sound(To(x, place))
         /\ req[x].at = "binds" => \A found \in BOOLEAN : Sound(ToSeats(x, found))
         /\ req[x].at = "seats" => Sound(AfterSeats(x))
         /\ req[x].at = "clearsDevice" /\ req[x].student # None => Sound(To(x, "clearsSeat"))
         /\ req[x].at \in {"clearsDevice", "clearsSeat"} => Sound(Afterwards(x))
         /\ req[x].at = "dropsPass" => Sound(To(x, "grantsPass"))
         /\ req[x].at = "grantsPass" => Sound(To(x, "closesEntry"))
  <1>0. Sound(req[x]) /\ Sound(Idle)
    BY SoundForms DEF SoundReqs
  <1> USE <1>0 DEF Sound, Requests, LoginPcs, RemovalPcs, ApprovalPcs
  <1>1. req[x].at # "idle" => Sound(To(x, "destroys"))
    BY DEF To
  <1>2. req[x].at = "binds" => \A found \in BOOLEAN : Sound(ToSeats(x, found))
    BY DEF ToSeats
  <1>3. req[x].at = "seats" => Sound(AfterSeats(x))
    BY DEF AfterSeats, To
  <1>4. req[x].at = "clearsDevice" /\ req[x].student # None => Sound(To(x, "clearsSeat"))
    BY DEF To
  <1>5. req[x].at \in {"clearsDevice", "clearsSeat"} => Sound(Afterwards(x))
    BY DEF Afterwards, To
  <1>6. req[x].at = "dropsPass" => Sound(To(x, "grantsPass"))
    BY DEF To
  <1>7. req[x].at = "grantsPass" => Sound(To(x, "closesEntry"))
    BY DEF To
  <1> HIDE DEF Sound, Requests, LoginPcs, RemovalPcs, ApprovalPcs
  <1> QED BY <1>1, <1>2, <1>3, <1>4, <1>5, <1>6, <1>7

LEMMA SoundBegin ==
  ASSUME Typed, NEW x \in Slots, NEW r, Sound(r), Begins(x, r)
  PROVE  SoundReqs' /\ overlapped' \in BOOLEAN /\ raced' \in BOOLEAN
  BY DEF Typed, Rows, SoundReqs, Begins, Sound

LEMMA SoundMove ==
  ASSUME Typed, NEW x \in Slots, NEW place, NEW next, Moves(x, place, next), Sound(next)
  PROVE  SoundReqs' /\ overlapped' \in BOOLEAN /\ raced' \in BOOLEAN
  BY DEF Typed, Rows, SoundReqs, Moves, Sound

LEMMA InitTyped == Init => Typed
  <1> SUFFICES ASSUME Init PROVE Typed
    OBVIOUS
  <1>1. Sound(Idle)
    BY DEF Sound, Idle, Requests, LoginPcs, RemovalPcs, ApprovalPcs
  <1>2. SoundReqs
    BY <1>1 DEF Init, SoundReqs, Sound
  <1>3. failures \in 0..MaxFailures
    BY BoundsAssumption DEF Init
  <1>4. pass \in [Devices -> Seq(Passes)] /\ entry \in [Devices -> Seq(Statuses)]
    BY EmptySeq DEF Init
  <1> QED
    BY <1>2, <1>3, <1>4, RosterAssumption DEF Init, Typed, Rows

\* What each kind of write does to the rows.
LEMMA LeavesSeatType ==
  ASSUME Rows, NEW s, LeavesSeat(s)
  PROVE  /\ seat' \in [Students -> Devices \union {None}]
         /\ address' \in [Students -> Devices \union {None}]
         /\ failures' \in 0..MaxFailures
  <1>1. s \in Students => Roster[s] \in Devices \union {None}
    BY RosterAssumption
  <1>2. failures' \in 0..MaxFailures
    BY BoundsAssumption DEF Rows, LeavesSeat
  <1>3. seat' \in [Students -> Devices \union {None}]
    BY DEF Rows, LeavesSeat
  <1>4. address' \in [Students -> Devices \union {None}]
    BY <1>1 DEF Rows, LeavesSeat
  <1> QED BY <1>2, <1>3, <1>4

LEMMA MachineTyped ==
  ASSUME Typed, NEW x \in Slots, NEW d \in Devices, Machine(x, d)
  PROVE  Typed'
  <1>0. Rows /\ SoundReqs
    BY DEF Typed
  <1>1. CASE RegisterReads(x, d)
    <2>1. SoundReqs' /\ overlapped' \in BOOLEAN /\ raced' \in BOOLEAN
      BY <1>0, <1>1, SoundForms, SoundBegin DEF RegisterReads
    <2> QED BY <1>0, <1>1, <2>1 DEF RegisterReads, tables, Typed, Rows
  <1>2. CASE \E resubmit \in BOOLEAN : RequestEntry(x, d, resubmit)
    <2>1. SoundReqs' /\ overlapped' \in BOOLEAN /\ raced' \in BOOLEAN
      BY <1>0, <1>2, SoundForms, SoundBegin DEF RequestEntry
    <2> QED BY <1>0, <1>2, <2>1 DEF RequestEntry, tables, Typed, Rows
  <1>3. ASSUME NEW s \in Students, LoginChecks(x, d, s) PROVE Typed'
    <2>1. pass[d] # <<>> => Head(pass[d]) \in Passes
      BY <1>0, HeadTailProperties DEF Rows
    <2>2. SoundReqs' /\ overlapped' \in BOOLEAN /\ raced' \in BOOLEAN
      BY <1>0, <1>3, <2>1, SoundForms, SoundBegin DEF LoginChecks
    <2> QED BY <1>0, <1>3, <2>2 DEF LoginChecks, tables, Typed, Rows
  <1> QED BY <1>1, <1>2, <1>3 DEF Machine

LEMMA UnbindReadsTyped ==
  ASSUME Typed, NEW x \in Slots, NEW d \in Devices, NEW i \in Nat, NEW who,
         who \in Holders \/ (i = 0 /\ who = None), UnbindReads(x, d, i, who)
  PROVE  SoundReqs' /\ overlapped' \in BOOLEAN /\ raced' \in BOOLEAN
  <1>1. PICK s \in AnyOf(SeatedAt(d)) :
          \/ bound[d] # None /\ Begins(x, Approving("clearsDevice", d, s, i, who))
          \/ bound[d] = None /\ s # None /\ Begins(x, Approving("clearsSeat", d, s, i, who))
    BY DEF UnbindReads
  <1>2. s \in Students \/ s = None
    BY DEF AnyOf, SeatedAt
  <1>3. Sound(Approving("clearsDevice", d, s, i, who)) /\ (s # None => Sound(Approving("clearsSeat", d, s, i, who)))
    BY <1>2, SoundForms DEF Typed
  <1> QED BY <1>1, <1>3, SoundBegin

LEMMA AssistantTyped ==
  ASSUME Typed, NEW x \in Slots, NEW d \in Devices, Assistant(x, d)
  PROVE  Typed'
  <1>0. Rows /\ SoundReqs
    BY DEF Typed
  <1>1. CASE UnbindDevice(x, d)
    <2>1. SoundReqs' /\ overlapped' \in BOOLEAN /\ raced' \in BOOLEAN
      BY <1>1, UnbindReadsTyped DEF UnbindDevice
    <2> QED BY <1>0, <1>1, <2>1 DEF UnbindDevice, tables, Typed, Rows
  <1>2. CASE Unregister(x, d)
    <2>1. PICK s \in AnyOf(SeatedAt(d)) :
            \/ s # None /\ Begins(x, With("vacates", d, s))
            \/ s = None /\ Begins(x, For("destroys", d))
      BY <1>2 DEF Unregister
    <2>2. s \in Students \/ s = None
      BY DEF AnyOf, SeatedAt
    <2>3. SoundReqs' /\ overlapped' \in BOOLEAN /\ raced' \in BOOLEAN
      BY <1>0, <2>1, <2>2, SoundForms, SoundBegin
    <2> QED BY <1>0, <1>2, <2>3 DEF Unregister, tables, Typed, Rows
  <1>3. ASSUME NEW i \in DOMAIN entry[d], ApproveSame(x, d, i) \/ ApproveNew(x, d, i) PROVE Typed'
    <2>1. i \in Nat
      BY <1>0, LenProperties DEF Rows
    <2>2. CASE ApproveSame(x, d, i)
      <3>1. bound[d] \in Holders
        BY <1>0, <2>2 DEF ApproveSame, Rows, Holders
      <3>2. SoundReqs' /\ overlapped' \in BOOLEAN /\ raced' \in BOOLEAN
        BY <1>0, <2>1, <2>2, <3>1, SoundForms, SoundBegin DEF ApproveSame
      <3> QED BY <1>0, <2>2, <3>2 DEF ApproveSame, tables, Typed, Rows
    <2>3. CASE ApproveNew(x, d, i)
      <3>1. Anyone \in Holders
        BY DEF Holders
      <3>2. SoundReqs' /\ overlapped' \in BOOLEAN /\ raced' \in BOOLEAN
        BY <1>0, <2>1, <2>3, <3>1, SoundForms, SoundBegin, UnbindReadsTyped DEF ApproveNew
      <3> QED BY <1>0, <2>3, <3>2 DEF ApproveNew, tables, Typed, Rows
    <2> QED BY <1>3, <2>2, <2>3
  <1> QED BY <1>1, <1>2, <1>3 DEF Assistant

LEMMA ContinuesTyped ==
  ASSUME Typed, NEW x \in Slots, Continues(x)
  PROVE  Typed'
  <1>0. Rows /\ SoundReqs /\ Sound(req[x])
    BY DEF Typed, SoundReqs
  <1>a. \A place, next : Moves(x, place, next) => req[x].at = place
    BY DEF Moves
  <1>b. \A place, next : Moves(x, place, next) /\ Sound(next) =>
          SoundReqs' /\ overlapped' \in BOOLEAN /\ raced' \in BOOLEAN
    BY SoundMove
  <1>c. /\ req[x].at # "idle" => req[x].device \in Devices
        /\ req[x].at \in LoginPcs \union {"clearsSeat", "vacates"} => req[x].student \in Students
        /\ req[x].at \in ApprovalPcs => req[x].who \in Holders
        /\ req[x].entry \in Nat /\ req[x].seated \in BOOLEAN
    BY <1>0 DEF Sound, Requests
  <1>1. CASE CreatesDevice(x)
    <2>1. SoundReqs' /\ overlapped' \in BOOLEAN /\ raced' \in BOOLEAN
      BY <1>0, <1>1, <1>b, SoundForms DEF CreatesDevice
    <2> QED BY <1>0, <1>1, <1>a, <1>c, <2>1 DEF CreatesDevice, Typed, Rows
  <1>2. CASE CreatesEntry(x)
    <2>1. SoundReqs' /\ overlapped' \in BOOLEAN /\ raced' \in BOOLEAN
      BY <1>0, <1>2, <1>b, SoundForms DEF CreatesEntry
    <2>2. \A q \in Seq(Statuses) : Append(q, "PENDING") \in Seq(Statuses)
      BY AppendProperties DEF Statuses
    <2>3. entry' \in [Devices -> Seq(Statuses)]
      BY <1>0, <1>2, <2>2 DEF CreatesEntry, Rows
    <2> QED BY <1>0, <1>2, <2>1, <2>3 DEF CreatesEntry, Typed, Rows
  <1>3. CASE BindsDevice(x)
    <2>1. SoundReqs' /\ overlapped' \in BOOLEAN /\ raced' \in BOOLEAN
      BY <1>0, <1>3, <1>a, <1>b, SoundForms, SoundMoves DEF BindsDevice
    <2>2. req[x].at = "binds" /\ "binds" \in LoginPcs
      BY <1>3, <1>a DEF BindsDevice, LoginPcs
    <2> QED BY <1>0, <1>3, <1>c, <2>1, <2>2 DEF BindsDevice, Typed, Rows
  <1>4. CASE BindsSeat(x)
    <2>1. SoundReqs' /\ overlapped' \in BOOLEAN /\ raced' \in BOOLEAN
      BY <1>0, <1>4, <1>a, <1>b, SoundForms, SoundMoves DEF BindsSeat
    <2>2. req[x].at = "seats" /\ "seats" \in LoginPcs
      BY <1>4, <1>a DEF BindsSeat, LoginPcs
    <2>3. /\ seat' \in [Students -> Devices \union {None}]
          /\ address' \in [Students -> Devices \union {None}]
      BY <1>0, <1>4, <1>c, <2>2 DEF BindsSeat, Rows
    <2> QED BY <1>0, <1>4, <2>1, <2>3 DEF BindsSeat, Typed, Rows
  <1>5. CASE SpendsPass(x)
    <2>1. SoundReqs' /\ overlapped' \in BOOLEAN /\ raced' \in BOOLEAN
      BY <1>0, <1>5, <1>b, SoundForms DEF SpendsPass
    <2>2. \A q \in Seq(Passes) : RemoveFirst(q, req[x].spends) \in Seq(Passes)
      BY RemoveFirstType
    <2>3. pass' \in [Devices -> Seq(Passes)]
      BY <1>0, <1>5, <2>2 DEF SpendsPass, Rows
    <2> QED BY <1>0, <1>5, <2>1, <2>3 DEF SpendsPass, Typed, Rows
  <1>6. CASE ClearsDevice(x)
    <2>1. SoundReqs' /\ overlapped' \in BOOLEAN /\ raced' \in BOOLEAN
      BY <1>0, <1>6, <1>a, <1>b, SoundMoves DEF ClearsDevice
    <2> QED BY <1>0, <1>6, <2>1 DEF ClearsDevice, Typed, Rows
  <1>7. CASE ClearsSeat(x)
    <2>1. SoundReqs' /\ overlapped' \in BOOLEAN /\ raced' \in BOOLEAN
      BY <1>0, <1>7, <1>a, <1>b, SoundMoves DEF ClearsSeat
    <2> QED BY <1>0, <1>7, <2>1, LeavesSeatType DEF ClearsSeat, Typed, Rows
  <1>8. CASE FreesDevice(x)
    <2>1. SoundReqs' /\ overlapped' \in BOOLEAN /\ raced' \in BOOLEAN
      BY <1>0, <1>8, <1>b, SoundForms DEF FreesDevice
    <2> QED BY <1>0, <1>8, <2>1 DEF FreesDevice, Typed, Rows
  <1>9. CASE Vacates(x)
    <2>1. SoundReqs' /\ overlapped' \in BOOLEAN /\ raced' \in BOOLEAN
      BY <1>0, <1>9, <1>a, <1>b, SoundMoves DEF Vacates
    <2> QED BY <1>0, <1>9, <2>1, LeavesSeatType DEF Vacates, Typed, Rows
  <1>10. CASE DestroysDevice(x)
    <2>1. SoundReqs' /\ overlapped' \in BOOLEAN /\ raced' \in BOOLEAN
      BY <1>0, <1>10, <1>b, SoundForms DEF DestroysDevice
    <2>2. req[x].device \in Devices
      BY <1>10, <1>a, <1>c DEF DestroysDevice
    <2>3. leftover' \subseteq Devices
      BY <1>0, <1>10, <2>2 DEF DestroysDevice, Rows
    <2>4. seat' \in [Students -> Devices \union {None}]
      BY <1>0, <1>10 DEF DestroysDevice, Rows
    <2> QED BY <1>0, <1>10, <2>1, <2>3, <2>4 DEF DestroysDevice, Typed, Rows
  <1>11. CASE DropsPass(x)
    <2>1. SoundReqs' /\ overlapped' \in BOOLEAN /\ raced' \in BOOLEAN
      BY <1>0, <1>11, <1>a, <1>b, SoundMoves DEF DropsPass
    <2>2. pass' \in [Devices -> Seq(Passes)]
      BY <1>0, <1>11, EmptySeq DEF DropsPass, Rows
    <2> QED BY <1>0, <1>11, <2>1, <2>2 DEF DropsPass, Typed, Rows
  <1>12. CASE GrantsPass(x)
    <2>1. SoundReqs' /\ overlapped' \in BOOLEAN /\ raced' \in BOOLEAN
      BY <1>0, <1>12, <1>a, <1>b, SoundMoves DEF GrantsPass
    <2>2. [entry |-> req[x].entry, who |-> req[x].who] \in Passes
      BY <1>12, <1>a, <1>c DEF GrantsPass, ApprovalPcs, Passes
    <2>3. \A q \in Seq(Passes) : Append(q, [entry |-> req[x].entry, who |-> req[x].who]) \in Seq(Passes)
      BY <2>2, AppendProperties
    <2>4. pass' \in [Devices -> Seq(Passes)]
      BY <1>0, <1>12, <2>3 DEF GrantsPass, Rows
    <2> QED BY <1>0, <1>12, <2>1, <2>4 DEF GrantsPass, Typed, Rows
  <1>13. CASE ClosesEntry(x)
    <2>1. SoundReqs' /\ overlapped' \in BOOLEAN /\ raced' \in BOOLEAN
      BY <1>0, <1>13, <1>b, SoundForms DEF ClosesEntry
    <2>2. \A q \in Seq(Statuses) : [q EXCEPT ![req[x].entry] = "ALLOWED"] \in Seq(Statuses)
      BY WriteType DEF Statuses
    <2>3. entry' \in [Devices -> Seq(Statuses)]
      BY <1>0, <1>13, <2>2 DEF ClosesEntry, Rows
    <2> QED BY <1>0, <1>13, <2>1, <2>3 DEF ClosesEntry, Typed, Rows
  <1> QED
    BY <1>1, <1>2, <1>3, <1>4, <1>5, <1>6, <1>7, <1>8, <1>9, <1>10, <1>11, <1>12, <1>13 DEF Continues

LEMMA TypeStep == Typed /\ [Next]_vars => Typed'
  <1> SUFFICES ASSUME Typed, [Next]_vars PROVE Typed'
    OBVIOUS
  <1>0. Rows /\ SoundReqs
    BY DEF Typed
  <1>1. ASSUME NEW x \in Slots, NEW s \in Students, UnbindUser(x, s) PROVE Typed'
    <2>1. SoundReqs' /\ overlapped' \in BOOLEAN /\ raced' \in BOOLEAN
      <3>1. seat[s] = None \/ seat[s] \in Devices
        BY <1>0 DEF Rows
      <3> QED BY <1>0, <1>1, <3>1, SoundForms, SoundBegin DEF UnbindUser
    <2> QED BY <1>0, <1>1, <2>1, LeavesSeatType DEF UnbindUser, Typed, Rows
  <1>2. ASSUME NEW x \in Slots, Fails(x) PROVE Typed'
    <2>1. SoundReqs'
      BY <1>0, <1>2, SoundForms DEF Fails, SoundReqs, Sound
    <2>2. failures' \in 0..MaxFailures
      BY <1>0, <1>2, BoundsAssumption DEF Fails, Rows
    <2> QED BY <1>0, <1>2, <2>1, <2>2 DEF Fails, tables, Typed, Rows
  <1>3. CASE Crash
    <2>0. \A x \in Slots : Sound(Idle)
      BY <1>0, SoundForms
    <2>1. SoundReqs'
      BY <2>0, <1>3 DEF Crash, SoundReqs, Sound
    <2>2. failures' \in 0..MaxFailures
      BY <1>0, <1>3, BoundsAssumption DEF Crash, Rows
    <2> QED BY <1>0, <1>3, <2>1, <2>2 DEF Crash, tables, Typed, Rows
  <1>4. CASE Switch
    BY <1>0, <1>4 DEF Switch, Typed, Rows, SoundReqs
  <1>5. ASSUME NEW d \in Devices, NEW i \in DOMAIN entry[d], Reject(d, i) PROVE Typed'
    <2>1. \A q \in Seq(Statuses) : [q EXCEPT ![i] = "REJECTED"] \in Seq(Statuses)
      BY WriteType DEF Statuses
    <2>2. entry' \in [Devices -> Seq(Statuses)]
      BY <1>0, <1>5, <2>1 DEF Reject, Rows
    <2> QED BY <1>0, <1>5, <2>2 DEF Reject, Typed, Rows, SoundReqs
  <1>6. CASE UNCHANGED vars
    BY <1>0, <1>6 DEF vars, tables, Typed, Rows, SoundReqs
  <1> QED
    BY <1>1, <1>2, <1>3, <1>4, <1>5, <1>6, MachineTyped, AssistantTyped, ContinuesTyped DEF Next

\* Every variable keeps its type: the tables, and each request at each of its calls.
THEOREM TypeCorrect == Spec => []TypeOK
  <1>1. Typed => TypeOK
    BY DEF Typed, Rows, SoundReqs, TypeOK
  <1> QED BY <1>1, InitTyped, TypeStep, PTL DEF Spec

--------------------------------------------------------------------------------
(* Logins take nothing away *)

Claimed ==
  \A x \in Slots : req[x].at \in {"binds", "seats"} =>
    /\ bound[req[x].device] \in {None, req[x].student}
    /\ seat[req[x].student] \in {None, req[x].device}
Apart ==
  \A x, y \in Slots : x # y /\ req[x].at \in LoginPcs /\ req[y].at \in LoginPcs =>
    req[x].device # req[y].device /\ req[x].student # req[y].student
LoginInv == Typed /\ (~ raced => Claimed /\ Apart)

\* What a step that is not part of a login may do: take seats apart, end requests.
NoNewLogin == (\A y \in Slots : req'[y].at \in LoginPcs => req'[y] = req[y]) /\ (~ raced' => ~ raced)
Frees ==
  /\ \A d \in Devices : bound'[d] \in {None, bound[d]}
  /\ \A s \in Students : seat'[s] \in {None, seat[s]}

LEMMA FreesKeeps == LoginInv /\ Typed' /\ NoNewLogin /\ Frees => LoginInv'
  <1> SUFFICES ASSUME LoginInv, Typed', NoNewLogin, Frees, ~ raced' PROVE Claimed' /\ Apart'
    BY DEF LoginInv
  <1>1. Claimed /\ Apart
    BY DEF LoginInv, NoNewLogin
  <1>2. Apart'
    BY <1>1 DEF Apart, NoNewLogin
  <1>3. ASSUME NEW x \in Slots, req'[x].at \in {"binds", "seats"}
        PROVE  /\ bound'[req'[x].device] \in {None, req'[x].student}
               /\ seat'[req'[x].student] \in {None, req'[x].device}
    <2>1. req'[x] = req[x] /\ req[x].at \in LoginPcs
      BY <1>3 DEF NoNewLogin, LoginPcs
    <2>2. req[x].device \in Devices /\ req[x].student \in Students
      BY <2>1, <1>3 DEF LoginInv, Typed, SoundReqs, Sound, LoginPcs
    <2> QED BY <1>1, <1>3, <2>1, <2>2 DEF Claimed, Frees
  <1> QED BY <1>2, <1>3 DEF Claimed

\* The calls of the requests that are no logins.
LEMMA OtherForms ==
  ASSUME NEW d, NEW s, NEW i, NEW who
  PROVE  /\ Idle.at \notin LoginPcs
         /\ \A place : For(place, d).at = place /\ With(place, d, s).at = place
                     /\ Approving(place, d, s, i, who).at = place
         /\ \A place \in {"creates", "asks"} \union RemovalPcs \union ApprovalPcs : place \notin LoginPcs
  BY DEF Idle, For, With, Approving, LoginPcs, RemovalPcs, ApprovalPcs

LEMMA OtherMoves ==
  ASSUME Typed, NEW x \in Slots
  PROVE  /\ \A place : To(x, place).at = place
         /\ Afterwards(x).at \notin LoginPcs
  BY DEF Typed, SoundReqs, Requests, To, Afterwards, Idle, LoginPcs

LEMMA OtherBegins ==
  ASSUME Typed, NEW x \in Slots, NEW r, r.at \notin LoginPcs, Begins(x, r)
  PROVE  NoNewLogin
  BY DEF Typed, SoundReqs, Begins, NoNewLogin

LEMMA OtherMove ==
  ASSUME Typed, NEW x \in Slots, NEW place, NEW next, next.at \notin LoginPcs, Moves(x, place, next)
  PROVE  NoNewLogin
  BY DEF Typed, SoundReqs, Moves, NoNewLogin

LEMMA UnbindReadsNoLogin ==
  ASSUME Typed, NEW x \in Slots, NEW d, NEW i, NEW who, UnbindReads(x, d, i, who)
  PROVE  NoNewLogin
  <1>1. PICK s : \/ Begins(x, Approving("clearsDevice", d, s, i, who))
                 \/ Begins(x, Approving("clearsSeat", d, s, i, who))
    BY DEF UnbindReads
  <1>2. /\ Approving("clearsDevice", d, s, i, who).at \notin LoginPcs
        /\ Approving("clearsSeat", d, s, i, who).at \notin LoginPcs
    BY OtherForms DEF RemovalPcs
  <1> QED BY <1>1, <1>2, OtherBegins

\* Nothing is freed where the tables stay as they are.
LEMMA SameRowsFree == Typed /\ UNCHANGED <<bound, seat>> => Frees
  BY DEF Frees

LEMMA LeavesSeatFrees ==
  ASSUME Typed, NEW s, LeavesSeat(s), UNCHANGED bound
  PROVE  Frees
  BY DEF Typed, Rows, LeavesSeat, Frees

LEMMA OthersKeep ==
  ASSUME LoginInv, [Next]_vars,
         ~ \E x \in Slots : \/ \E d \in Devices, s \in Students : LoginChecks(x, d, s)
                           \/ BindsDevice(x) \/ BindsSeat(x)
  PROVE  LoginInv'
  <1>0. Typed /\ Typed'
    BY TypeStep DEF LoginInv
  <1>u. UNCHANGED tables => UNCHANGED <<bound, seat>>
    BY DEF tables
  <1> SUFFICES NoNewLogin /\ Frees
    BY <1>0, FreesKeeps
  <1>1. ASSUME NEW x \in Slots, NEW d \in Devices, Machine(x, d) PROVE NoNewLogin /\ Frees
    <2>1. ~ \E s \in Students : LoginChecks(x, d, s)
      OBVIOUS
    <2>2. CASE RegisterReads(x, d)
      BY <1>0, <1>u, <2>2, OtherForms, OtherBegins, SameRowsFree DEF RegisterReads
    <2>3. CASE \E resubmit \in BOOLEAN : RequestEntry(x, d, resubmit)
      BY <1>0, <1>u, <2>3, OtherForms, OtherBegins, SameRowsFree DEF RequestEntry
    <2> QED BY <1>1, <2>1, <2>2, <2>3 DEF Machine
  <1>2. ASSUME NEW x \in Slots, NEW d \in Devices, Assistant(x, d) PROVE NoNewLogin /\ Frees
    <2>1. CASE UnbindDevice(x, d)
      BY <1>0, <1>u, <2>1, UnbindReadsNoLogin, SameRowsFree DEF UnbindDevice
    <2>2. CASE Unregister(x, d)
      <3>1. PICK s : Begins(x, With("vacates", d, s)) \/ Begins(x, For("destroys", d))
        BY <2>2 DEF Unregister
      <3>2. With("vacates", d, s).at \notin LoginPcs /\ For("destroys", d).at \notin LoginPcs
        BY OtherForms DEF RemovalPcs
      <3> QED BY <1>0, <1>u, <2>2, <3>1, <3>2, OtherBegins, SameRowsFree DEF Unregister
    <2>3. ASSUME NEW i \in DOMAIN entry[d], ApproveSame(x, d, i) \/ ApproveNew(x, d, i)
          PROVE  NoNewLogin /\ Frees
      <3>1. UNCHANGED <<bound, seat>>
        BY <1>u, <2>3 DEF ApproveSame, ApproveNew
      <3>2. \A who : Approving("dropsPass", d, None, i, who).at \notin LoginPcs
        BY OtherForms DEF ApprovalPcs
      <3>3. NoNewLogin
        BY <1>0, <2>3, <3>2, OtherBegins, UnbindReadsNoLogin DEF ApproveSame, ApproveNew
      <3> QED BY <1>0, <3>1, <3>3, SameRowsFree
    <2> QED BY <1>2, <2>1, <2>2, <2>3 DEF Assistant
  <1>3. ASSUME NEW x \in Slots, Continues(x) PROVE NoNewLogin /\ Frees
    <2>0. Idle.at \notin LoginPcs /\ Afterwards(x).at \notin LoginPcs
          /\ \A place \in RemovalPcs \union ApprovalPcs : To(x, place).at \notin LoginPcs
      BY <1>0, OtherForms, OtherMoves
    <2>a. ~ BindsDevice(x) /\ ~ BindsSeat(x)
      OBVIOUS
    <2>1. CASE CreatesDevice(x) \/ CreatesEntry(x) \/ SpendsPass(x) \/ ClosesEntry(x)
      BY <1>0, <2>0, <2>1, OtherMove, SameRowsFree DEF CreatesDevice, CreatesEntry, SpendsPass, ClosesEntry
    <2>2. CASE DropsPass(x) \/ GrantsPass(x)
      BY <1>0, <2>0, <2>2, OtherMove, SameRowsFree DEF DropsPass, GrantsPass, ApprovalPcs
    <2>3. CASE ClearsSeat(x)
      BY <1>0, <2>0, <2>3, OtherMove, LeavesSeatFrees DEF ClearsSeat
    <2>4. CASE Vacates(x)
      BY <1>0, <2>0, <2>4, OtherMove, LeavesSeatFrees DEF Vacates, RemovalPcs
    <2>5. CASE ClearsDevice(x)
      <3>1. NoNewLogin
        BY <1>0, <2>0, <2>5, OtherMove DEF ClearsDevice, RemovalPcs
      <3>2. Frees
        BY <1>0, <2>5 DEF ClearsDevice, Frees, Typed, Rows
      <3> QED BY <3>1, <3>2
    <2>6. CASE FreesDevice(x)
      <3>1. NoNewLogin
        BY <1>0, <2>0, <2>6, OtherMove DEF FreesDevice
      <3>2. Frees
        BY <1>0, <2>6 DEF FreesDevice, Frees, Typed, Rows
      <3> QED BY <3>1, <3>2
    <2>7. CASE DestroysDevice(x)
      <3>1. NoNewLogin
        BY <1>0, <2>0, <2>7, OtherMove DEF DestroysDevice
      <3>2. Frees
        BY <1>0, <2>7 DEF DestroysDevice, Frees, Typed, Rows
      <3> QED BY <3>1, <3>2
    <2> QED BY <1>3, <2>a, <2>1, <2>2, <2>3, <2>4, <2>5, <2>6, <2>7 DEF Continues
  <1>4. ASSUME NEW x \in Slots, NEW s \in Students, UnbindUser(x, s) PROVE NoNewLogin /\ Frees
    <2>1. Idle.at \notin LoginPcs /\ For("freesDevice", seat[s]).at \notin LoginPcs
      BY OtherForms DEF RemovalPcs
    <2>2. NoNewLogin
      BY <1>0, <1>4, <2>1, OtherBegins DEF UnbindUser
    <2>3. Frees
      BY <1>0, <1>4, LeavesSeatFrees DEF UnbindUser
    <2> QED BY <2>2, <2>3
  <1>5. ASSUME NEW x \in Slots, Fails(x) PROVE NoNewLogin /\ Frees
    BY <1>0, <1>u, <1>5, OtherForms, SameRowsFree DEF Fails, NoNewLogin, Typed, SoundReqs
  <1>6. CASE Crash
    BY <1>0, <1>u, <1>6, OtherForms, SameRowsFree DEF Crash, NoNewLogin
  <1>7. CASE Switch \/ \E d \in Devices : \E i \in DOMAIN entry[d] : Reject(d, i)
    BY <1>0, <1>7, SameRowsFree DEF Switch, Reject, NoNewLogin
  <1>8. CASE UNCHANGED vars
    BY <1>0, <1>u, <1>8, SameRowsFree DEF vars, NoNewLogin
  <1> QED BY <1>1, <1>2, <1>3, <1>4, <1>5, <1>6, <1>7, <1>8 DEF Next

\* A login that is checked while no other one is at its machine or student may claim both.
LEMMA ChecksKeep ==
  ASSUME LoginInv, NEW x \in Slots, NEW d \in Devices, NEW s \in Students, LoginChecks(x, d, s), Typed'
  PROVE  LoginInv'
  <1> SUFFICES ASSUME ~ raced' PROVE Claimed' /\ Apart'
    BY DEF LoginInv
  <1>1. PICK row : Begins(x, Spending(d, s, row))
    BY DEF LoginChecks
  <1>2. /\ Spending(d, s, row).at = "binds" /\ Spending(d, s, row).device = d
        /\ Spending(d, s, row).student = s
    BY DEF Spending, Idle
  <1>3. ~ raced /\ ~ Collides(d, s) /\ req[x].at = "idle"
        /\ req' = [req EXCEPT ![x] = Spending(d, s, row)]
    BY <1>1, <1>2 DEF Begins, LoginPcs, Busy
  <1>4. Claimed /\ Apart /\ req \in [Slots -> Requests]
    BY <1>3 DEF LoginInv, Typed, SoundReqs
  <1>5. bound[d] \in {None, s} /\ seat[s] \in {None, d} /\ UNCHANGED <<bound, seat>>
    BY DEF LoginChecks, MayLogin, tables
  <1>6. \A y \in Slots : y # x => req'[y] = req[y]
    BY <1>3, <1>4
  <1>7. req'[x] = Spending(d, s, row)
    BY <1>3, <1>4
  <1>8. Claimed'
    BY <1>2, <1>4, <1>5, <1>6, <1>7 DEF Claimed
  <1>9. \A y \in Slots : y # x /\ req[y].at \in LoginPcs => req[y].device # d /\ req[y].student # s
    BY <1>3 DEF Collides, Busy, LoginPcs
  <1>10. Apart'
    BY <1>2, <1>4, <1>6, <1>7, <1>9 DEF Apart
  <1> QED BY <1>8, <1>10

\* What the write of a login leaves of the other claims: they are for other machines and students.
LEMMA WritesKeep ==
  ASSUME LoginInv, NEW x \in Slots, BindsDevice(x) \/ BindsSeat(x), Typed'
  PROVE  LoginInv'
  <1> SUFFICES ASSUME ~ raced' PROVE Claimed' /\ Apart'
    BY DEF LoginInv
  <1> DEFINE d == req[x].device  s == req[x].student
  <1>0. /\ ~ raced /\ req[x].at \in LoginPcs
        /\ \E next : Moves(x, req[x].at, next)
    BY DEF BindsDevice, BindsSeat, Moves, LoginPcs
  <1>1. Typed /\ Claimed /\ Apart /\ req \in [Slots -> Requests] /\ d \in Devices /\ s \in Students
    BY <1>0 DEF LoginInv, Typed, SoundReqs, Sound, LoginPcs
  <1>2. \A y \in Slots : y # x => req'[y] = req[y]
    BY <1>0, <1>1 DEF Moves
  <1>a. /\ \A found : ToSeats(x, found).device = d /\ ToSeats(x, found).student = s
        /\ AfterSeats(x).at \in LoginPcs => AfterSeats(x).device = d /\ AfterSeats(x).student = s
        /\ Idle.at \notin LoginPcs
    BY <1>1 DEF ToSeats, AfterSeats, To, Idle, LoginPcs, Requests
  <1>b. \/ \E found : req'[x] = ToSeats(x, found)
        \/ req'[x] = AfterSeats(x) \/ req'[x] = Idle
    BY <1>1 DEF BindsDevice, BindsSeat, Moves
  <1>3. req'[x].at \in LoginPcs => req'[x].device = d /\ req'[x].student = s
    BY <1>a, <1>b
  <1>4. Apart'
    BY <1>0, <1>1, <1>2, <1>3 DEF Apart
  <1>5. /\ \A e \in Devices : bound'[e] = bound[e] \/ (e = d /\ bound'[e] = s)
        /\ \A t \in Students : seat'[t] = seat[t] \/ (t = s /\ seat'[t] = d)
    BY <1>1 DEF BindsDevice, BindsSeat, Typed, Rows
  <1>6. ASSUME NEW y \in Slots, req'[y].at \in {"binds", "seats"}
        PROVE  /\ bound'[req'[y].device] \in {None, req'[y].student}
               /\ seat'[req'[y].student] \in {None, req'[y].device}
    <2>1. CASE y # x
      <3>1. req'[y] = req[y] /\ req[y].device \in Devices /\ req[y].student \in Students
        BY <1>1, <1>2, <1>6, <2>1 DEF Typed, SoundReqs, Sound, LoginPcs
      <3>2. req[y].device # d /\ req[y].student # s
        BY <1>0, <1>1, <1>6, <2>1, <3>1 DEF Apart, LoginPcs
      <3> QED BY <1>1, <1>5, <1>6, <3>1, <3>2 DEF Claimed
    <2>2. CASE y = x
      <3>1. req[x].at \in {"binds", "seats"}
        BY DEF BindsDevice, BindsSeat, Moves
      <3>2. req'[x].device = d /\ req'[x].student = s
        BY <1>3, <1>6, <2>2 DEF LoginPcs
      <3> QED BY <1>1, <1>5, <2>2, <3>1, <3>2 DEF Claimed
    <2> QED BY <2>1, <2>2
  <1> QED BY <1>4, <1>6 DEF Claimed

LEMMA LoginStep == LoginInv /\ [Next]_vars => LoginInv'
  <1> SUFFICES ASSUME LoginInv, [Next]_vars PROVE LoginInv'
    OBVIOUS
  <1>1. Typed'
    BY TypeStep DEF LoginInv
  <1> QED BY <1>1, OthersKeep, ChecksKeep, WritesKeep

\* The step that writes for a login takes neither side of a pair from it.
LEMMA LoginsSpare ==
  ASSUME LoginInv, [Next]_vars, ~ raced, NEW x \in Slots, req[x].at \in LoginPcs, req'[x] # req[x],
         NEW d \in Devices, NEW s \in Students, Together(d, s)
  PROVE  Together(d, s)'
  <1>0. Typed /\ Claimed /\ req \in [Slots -> Requests] /\ req[x].at # "idle"
    BY DEF LoginInv, Typed, SoundReqs, LoginPcs
  <1>t. UNCHANGED <<bound, seat>> => Together(d, s)'
    BY DEF Together
  <1>u. UNCHANGED tables => UNCHANGED <<bound, seat>>
    BY DEF tables
  <1>b. \A y \in Slots : \A r : ~ (Begins(y, r) /\ y = x)
    BY <1>0 DEF Begins, Busy
  <1>1. \A y \in Slots : \A r : Begins(y, r) => req'[x] = req[x]
    BY <1>0, <1>b DEF Begins
  <1>2. \A y \in Slots : \A place, next : Moves(y, place, next) => y = x /\ place \in LoginPcs
    BY <1>0 DEF Moves
  <1>3. ASSUME NEW y \in Slots, NEW e \in Devices, Machine(y, e) PROVE Together(d, s)'
    BY <1>3, <1>1 DEF Machine, RegisterReads, RequestEntry, LoginChecks
  <1>4. ASSUME NEW y \in Slots, NEW e \in Devices, Assistant(y, e) PROVE Together(d, s)'
    BY <1>4, <1>1 DEF Assistant, UnbindDevice, UnbindReads, Unregister, ApproveSame, ApproveNew
  <1>5. ASSUME NEW y \in Slots, NEW t \in Students, UnbindUser(y, t) PROVE Together(d, s)'
    BY <1>5, <1>1 DEF UnbindUser
  <1>6. ASSUME NEW y \in Slots, Continues(y) PROVE Together(d, s)'
    <2>1. BindsDevice(y) \/ BindsSeat(y) \/ SpendsPass(y)
      BY <1>6, <1>2 DEF Continues, CreatesDevice, CreatesEntry, ClearsDevice, ClearsSeat, FreesDevice,
         Vacates, DestroysDevice, DropsPass, GrantsPass, ClosesEntry, LoginPcs
    <2>2. y = x
      BY <2>1, <1>2 DEF BindsDevice, BindsSeat, SpendsPass
    <2>3. CASE BindsDevice(x)
      <3>1. /\ bound[req[x].device] \in {None, req[x].student}
            /\ req[x].device \in Devices /\ req[x].student \in Students
        BY <1>0, <2>3 DEF BindsDevice, Moves, Claimed, Typed, SoundReqs, Sound, LoginPcs
      <3>2. s # None
        BY NamesAssumption
      <3> QED BY <1>0, <2>3, <3>1, <3>2 DEF BindsDevice, Together, Typed, Rows
    <2>4. CASE BindsSeat(x)
      <3>1. /\ seat[req[x].student] \in {None, req[x].device}
            /\ req[x].device \in Devices /\ req[x].student \in Students
        BY <1>0, <2>4 DEF BindsSeat, Moves, Claimed, Typed, SoundReqs, Sound, LoginPcs
      <3>2. d # None
        BY NamesAssumption
      <3> QED BY <1>0, <2>4, <3>1, <3>2 DEF BindsSeat, Together, Typed, Rows
    <2>5. CASE SpendsPass(x)
      BY <1>t, <2>5 DEF SpendsPass
    <2> QED BY <2>1, <2>2, <2>3, <2>4, <2>5
  <1>7. CASE Crash \/ \E y \in Slots : Fails(y)
    BY <1>t, <1>u, <1>7 DEF Crash, Fails
  <1>8. CASE Switch \/ \E e \in Devices : \E i \in DOMAIN entry[e] : Reject(e, i)
    BY <1>t, <1>8 DEF Switch, Reject
  <1>9. CASE UNCHANGED vars
    BY <1>t, <1>u, <1>9 DEF vars
  <1> QED BY <1>3, <1>4, <1>5, <1>6, <1>7, <1>8, <1>9 DEF Next

LEMMA InitLogin == Init => LoginInv
  <1> SUFFICES ASSUME Init PROVE Claimed /\ Apart
    BY InitTyped DEF LoginInv
  <1> QED BY OtherForms DEF Init, Claimed, Apart, LoginPcs, Idle

\* A login takes no seat and no machine from the student who has it, whatever assistants do and
\* whatever stops half-way meanwhile, as long as no two logins for one machine or student overlap.
THEOREM LoginsEvictNobody == Spec => NoEviction
  <1> DEFINE Spares == ~ raced =>
        \A x \in Slots : req[x].at \in LoginPcs /\ req'[x] # req[x] =>
          \A d \in Devices, s \in Students : Together(d, s) => Together(d, s)'
  <1>1. LoginInv /\ [Next]_vars => [Spares]_vars
    <2> SUFFICES ASSUME LoginInv, [Next]_vars PROVE Spares
      OBVIOUS
    <2> QED BY LoginsSpare
  <1>2. Spec => [][Spares]_vars
    <2> HIDE DEF Spares
    <2> QED BY <1>1, InitLogin, LoginStep, PTL DEF Spec
  <1> QED BY <1>2 DEF NoEviction

--------------------------------------------------------------------------------
(* Requests one after the other *)

Matching(d) == \A s \in Students : bound[d] = s <=> seat[s] = d
LatestPends == \A d \in Devices : \A i \in DOMAIN entry[d] : entry[d][i] = "PENDING" => i = Len(entry[d])
\* Who sits somewhere comes from there, who does not from where the roster says.
Armed == \A s \in Students : address[s] = IF seat[s] = None THEN Roster[s] ELSE seat[s]
OnePass == \A d \in Devices : pass[d] = <<>> \/ Len(pass[d]) = 1
\* A pass is for the student who sits there, if somebody does.
PassFits(d) == pass[d] # <<>> /\ bound[d] # None => Head(pass[d]).who = bound[d]

\* The tables while no request is under way.
Rested == LatestPends /\ (failures = 0 => Armed /\ OnePass /\ \A d \in Devices : Matching(d) /\ PassFits(d))

\* The entry requests, with r under way.
Requesting(r) ==
  LatestPends /\ (r.at = "asks" => \A i \in DOMAIN entry[r.device] : entry[r.device][i] # "PENDING")

\* The seats, with r under way: between the two writes that take a seat or give it up the tables differ,
\* at the machine of r only and only as its next call says.
Between == {"seats", "clearsSeat", "freesDevice", "destroys"}
Seating(r) ==
  /\ Armed
  /\ \A d \in Devices : r.at \notin Between \/ d # r.device => Matching(d)
  /\ r.at = "binds" =>
       /\ r.device \in registered
       /\ bound[r.device] \in {None, r.student} /\ seat[r.student] \in {None, r.device}
  /\ r.at = "seats" =>
       /\ r.device \in registered /\ bound[r.device] = r.student
       /\ seat[r.student] = IF r.seated THEN r.device ELSE None
       /\ \A s \in Students : seat[s] = r.device => s = r.student
  /\ r.at \in {"clearsDevice", "clearsSeat"} => \A s \in Students : seat[s] = r.device <=> s = r.student
  /\ r.at = "clearsSeat" => bound[r.device] = None
  /\ r.at = "vacates" => seat[r.student] = r.device
  /\ r.at \in {"freesDevice", "destroys"} => \A s \in Students : seat[s] # r.device

\* The passes, with r under way: a login that bound the machine is about to spend its pass.
Passing(r) ==
  /\ OnePass
  /\ \A d \in Devices : r.at \notin {"seats", "spends"} \/ d # r.device => PassFits(d)
  /\ r.at \in LoginPcs => pass[r.device] = IF r.spends = None THEN <<>> ELSE <<r.spends>>
  /\ r.at \in ApprovalPcs => bound[r.device] \in {None, r.who}
  /\ r.at = "grantsPass" => pass[r.device] = <<>>

Sits(r) == Requesting(r) /\ (failures = 0 => Seating(r) /\ Passing(r))

Alone(x) == \A y \in Slots : y # x => req[y].at = "idle"
OrderInv ==
  /\ Typed
  /\ ~ overlapped =>
       /\ (\A x \in Slots : req[x].at = "idle") => Rested
       /\ \A x \in Slots : req[x].at # "idle" => Alone(x) /\ Sits(req[x])

\* Calls that are no step of a login or an approval carry no more than their names say.
LEMMA Fields ==
  ASSUME NEW place, NEW d, NEW s, NEW i, NEW who, NEW row
  PROVE  /\ Idle.at = "idle"
         /\ For(place, d).at = place /\ For(place, d).device = d
         /\ With(place, d, s).at = place /\ With(place, d, s).device = d /\ With(place, d, s).student = s
         /\ Spending(d, s, row).at = "binds" /\ Spending(d, s, row).device = d
         /\ Spending(d, s, row).student = s /\ Spending(d, s, row).spends = row
         /\ Approving(place, d, s, i, who).at = place /\ Approving(place, d, s, i, who).device = d
         /\ Approving(place, d, s, i, who).student = s /\ Approving(place, d, s, i, who).who = who
  BY DEF Idle, For, With, Spending, Approving

\* A request moves on: its call changes, what it carries stays.
LEMMA FieldsKept ==
  ASSUME Typed, NEW x \in Slots, NEW place, NEW found
  PROVE  /\ To(x, place).at = place /\ To(x, place).device = req[x].device
         /\ To(x, place).student = req[x].student /\ To(x, place).who = req[x].who
         /\ To(x, place).spends = req[x].spends /\ To(x, place).entry = req[x].entry
         /\ ToSeats(x, found).at = "seats" /\ ToSeats(x, found).device = req[x].device
         /\ ToSeats(x, found).student = req[x].student /\ ToSeats(x, found).seated = found
         /\ ToSeats(x, found).spends = req[x].spends
  BY DEF Typed, SoundReqs, Requests, To, ToSeats

\* A request arrives while no other one is there: what it is to carry must fit the tables at rest.
LEMMA BeginsGo ==
  ASSUME OrderInv, Typed', NEW x \in Slots, NEW r, Begins(x, r), r.at # "idle",
         req'[x] = r /\ Rested => Sits(req[x])'
  PROVE  OrderInv'
  <1>1. req \in [Slots -> Requests] /\ req'[x] = r /\ \A y \in Slots : y # x => req'[y] = req[y]
    BY DEF OrderInv, Typed, SoundReqs, Begins
  <1>2. ~ overlapped' => ~ overlapped /\ \A y \in Slots : req[y].at = "idle"
    BY DEF Begins, Busy
  <1>3. ~ overlapped' => Sits(req[x])' /\ Alone(x)'
    BY <1>1, <1>2 DEF OrderInv, Alone
  <1>4. ~ overlapped' => \A y \in Slots : req'[y].at # "idle" => y = x
    BY <1>1, <1>2
  <1> QED BY <1>1, <1>3, <1>4 DEF OrderInv

\* A request that is over at once.
LEMMA BeginsRest ==
  ASSUME OrderInv, Typed', NEW x \in Slots, Begins(x, Idle), Rested => Rested'
  PROVE  OrderInv'
  <1>1. req \in [Slots -> Requests] /\ req'[x].at = "idle" /\ \A y \in Slots : y # x => req'[y] = req[y]
    BY Fields DEF OrderInv, Typed, SoundReqs, Begins
  <1>2. ~ overlapped' => ~ overlapped /\ \A y \in Slots : req[y].at = "idle"
    BY DEF Begins, Busy
  <1>3. ~ overlapped' => Rested'
    BY <1>2 DEF OrderInv
  <1>4. ~ overlapped' => \A y \in Slots : req'[y].at = "idle"
    BY <1>1, <1>2
  <1> QED BY <1>3, <1>4 DEF OrderInv

\* A call of the request under way returns, and its next one is made ...
LEMMA MovesGo ==
  ASSUME OrderInv, Typed', NEW x \in Slots, NEW place, place # "idle", NEW r, r.at # "idle", Moves(x, place, r),
         req[x].at = place /\ req'[x] = r /\ Sits(req[x]) => Sits(req[x])'
  PROVE  OrderInv'
  <1>1. req \in [Slots -> Requests] /\ req'[x] = r /\ \A y \in Slots : y # x => req'[y] = req[y]
    BY DEF OrderInv, Typed, SoundReqs, Moves
  <1>2. req[x].at = place /\ (overlapped' <=> overlapped)
    BY DEF Moves
  <1>3. ~ overlapped' => Alone(x) /\ Sits(req[x])
    BY <1>2 DEF OrderInv
  <1>4. ~ overlapped' => Alone(x)' /\ Sits(req[x])' /\ \A y \in Slots : req'[y].at # "idle" => y = x
    BY <1>1, <1>2, <1>3 DEF Alone
  <1> QED BY <1>1, <1>4 DEF OrderInv

\* ... or it is over.
LEMMA MovesRest ==
  ASSUME OrderInv, Typed', NEW x \in Slots, NEW place, place # "idle", Moves(x, place, Idle),
         req[x].at = place /\ Sits(req[x]) => Rested'
  PROVE  OrderInv'
  <1>1. req \in [Slots -> Requests] /\ req'[x].at = "idle" /\ \A y \in Slots : y # x => req'[y] = req[y]
    BY Fields DEF OrderInv, Typed, SoundReqs, Moves
  <1>2. req[x].at = place /\ (overlapped' <=> overlapped)
    BY DEF Moves
  <1>3. ~ overlapped' => Alone(x) /\ Sits(req[x])
    BY <1>2 DEF OrderInv
  <1>4. ~ overlapped' => Rested' /\ \A y \in Slots : req'[y].at = "idle"
    BY <1>1, <1>2, <1>3 DEF Alone
  <1> QED BY <1>4 DEF OrderInv

LEMMA SeatsStay ==
  ASSUME UNCHANGED <<bound, seat, address>>
  PROVE  (Armed => Armed') /\ \A d : Matching(d) => Matching(d)'
  BY DEF Armed, Matching

LEMMA PassesStay ==
  ASSUME UNCHANGED <<bound, pass>>
  PROVE  (OnePass => OnePass') /\ \A d : PassFits(d) => PassFits(d)'
  BY DEF OnePass, PassFits

LEMMA EntriesStay ==
  ASSUME UNCHANGED entry
  PROVE  LatestPends => LatestPends'
  BY DEF LatestPends

\* What a request that only reads needs of the tables at rest.
LEMMA ReadsFit ==
  ASSUME UNCHANGED tables, UNCHANGED failures, Rested, NEW x \in Slots,
         req'[x].at \notin {"seats", "spends", "freesDevice", "grantsPass", "closesEntry"},
         req'[x].at = "asks" => \A i \in DOMAIN entry[req'[x].device] : entry[req'[x].device][i] # "PENDING",
         failures = 0 =>
           /\ req'[x].at = "binds" =>
                /\ req'[x].device \in registered /\ bound[req'[x].device] \in {None, req'[x].student}
                /\ seat[req'[x].student] \in {None, req'[x].device}
                /\ pass[req'[x].device] = IF req'[x].spends = None THEN <<>> ELSE <<req'[x].spends>>
           /\ req'[x].at # "clearsSeat"
           /\ req'[x].at = "clearsDevice" => \A s \in Students : seat[s] = req'[x].device <=> s = req'[x].student
           /\ req'[x].at = "vacates" => seat[req'[x].student] = req'[x].device
           /\ req'[x].at = "destroys" => \A s \in Students : seat[s] # req'[x].device
           /\ req'[x].at = "dropsPass" => bound[req'[x].device] \in {None, req'[x].who}
  PROVE  Sits(req[x])'
  <1>0. UNCHANGED <<registered, bound, seat, address, pass, entry>>
    BY DEF tables
  <1>1. Requesting(req[x])'
    BY <1>0, EntriesStay DEF Rested, Requesting
  <1>2. failures = 0 => Seating(req[x])'
    BY <1>0, SeatsStay DEF Rested, Seating, Between
  <1>3. failures = 0 => Passing(req[x])'
    BY <1>0, PassesStay DEF Rested, Passing, LoginPcs, ApprovalPcs
  <1> QED BY <1>1, <1>2, <1>3 DEF Sits

\* A sequence of one row is that of its first row.
LEMMA OneRow ==
  ASSUME NEW S, NEW q \in Seq(S), Len(q) = 1
  PROVE  q = <<Head(q)>>
  OBVIOUS

LEMMA MachineOrder ==
  ASSUME OrderInv, Typed', NEW x \in Slots, NEW d \in Devices, Machine(x, d)
  PROVE  OrderInv'
  <1>0. Typed
    BY DEF OrderInv
  <1>1. CASE RegisterReads(x, d)
    <2>1. UNCHANGED tables /\ UNCHANGED failures /\ Begins(x, For("creates", d))
      BY <1>1 DEF RegisterReads
    <2>2. For("creates", d).at = "creates"
      BY Fields
    <2>3. req'[x] = For("creates", d) /\ Rested => Sits(req[x])'
      BY <2>1, <2>2, ReadsFit
    <2> QED BY <2>1, <2>2, <2>3, BeginsGo
  <1>2. ASSUME NEW resubmit \in BOOLEAN, RequestEntry(x, d, resubmit) PROVE OrderInv'
    <2>1. UNCHANGED tables /\ UNCHANGED failures /\ Begins(x, For("asks", d)) /\ Asks(d, resubmit)
      BY <1>2 DEF RequestEntry
    <2>2. For("asks", d).at = "asks" /\ For("asks", d).device = d
      BY Fields
    <2>3. LatestPends => \A i \in DOMAIN entry[d] : entry[d][i] # "PENDING"
      <3>1. entry[d] \in Seq(Statuses)
        BY <1>0 DEF Typed, Rows
      <3>2. Len(entry[d]) = 0 => DOMAIN entry[d] = {}
        BY <3>1, LenProperties
      <3> QED BY <2>1, <3>2 DEF Asks, LatestPends
    <2>4. req'[x] = For("asks", d) /\ Rested => Sits(req[x])'
      BY <2>1, <2>2, <2>3, ReadsFit DEF Rested
    <2> QED BY <2>1, <2>2, <2>4, BeginsGo
  <1>3. ASSUME NEW s \in Students, LoginChecks(x, d, s) PROVE OrderInv'
    <2>1. PICK row : /\ Begins(x, Spending(d, s, row))
                     /\ (pass[d] = <<>> /\ row = None) \/ (pass[d] # <<>> /\ row = Head(pass[d]))
      BY <1>3 DEF LoginChecks
    <2>2. /\ Spending(d, s, row).at = "binds" /\ Spending(d, s, row).device = d
          /\ Spending(d, s, row).student = s /\ Spending(d, s, row).spends = row
      BY Fields
    <2>3. UNCHANGED tables /\ UNCHANGED failures /\ MayLogin(d, s)
      BY <1>3 DEF LoginChecks
    <2>4. OnePass => pass[d] = IF row = None THEN <<>> ELSE <<row>>
      <3>1. pass[d] \in Seq(Passes)
        BY <1>0 DEF Typed, Rows
      <3>2. CASE pass[d] = <<>>
        BY <2>1, <3>2
      <3>3. CASE pass[d] # <<>>
        <4>1. row \in Passes /\ row # None
          BY <2>1, <3>1, <3>3, HeadTailProperties, PassAssumption
        <4>2. Len(pass[d]) = 1 => pass[d] = <<Head(pass[d])>>
          BY <3>1, OneRow
        <4> QED BY <2>1, <3>3, <4>1, <4>2 DEF OnePass
      <3> QED BY <3>2, <3>3
    <2>5. d \in registered /\ bound[d] \in {None, s} /\ seat[s] \in {None, d}
      BY <2>3 DEF MayLogin
    <2>6. req'[x] = Spending(d, s, row) /\ Rested => Sits(req[x])'
      BY <2>2, <2>3, <2>4, <2>5, ReadsFit DEF Rested
    <2> QED BY <2>1, <2>2, <2>6, BeginsGo
  <1> QED BY <1>1, <1>2, <1>3 DEF Machine

\* Who sits at a machine, where both tables agree.
LEMMA WhoSits ==
  ASSUME Typed, NEW d \in Devices, Matching(d), NEW s \in AnyOf(SeatedAt(d))
  PROVE  /\ \A t \in Students : seat[t] = d <=> t = s
         /\ bound[d] = s
  <1>1. bound[d] \in Students \union {None} /\ None \notin Students
    BY NamesAssumption DEF Typed, Rows
  <1>2. CASE SeatedAt(d) = {}
    BY <1>1, <1>2 DEF Matching, AnyOf, SeatedAt
  <1>3. CASE SeatedAt(d) # {}
    BY <1>1, <1>3 DEF Matching, AnyOf, SeatedAt
  <1> QED BY <1>2, <1>3

LEMMA UnbindReadsOrder ==
  ASSUME OrderInv, Typed', NEW x \in Slots, NEW d \in Devices, NEW i, NEW who,
         UnbindReads(x, d, i, who), UNCHANGED tables, UNCHANGED failures
  PROVE  OrderInv'
  <1>0. Typed
    BY DEF OrderInv
  <1>1. PICK s \in AnyOf(SeatedAt(d)) :
          \/ bound[d] # None /\ Begins(x, Approving("clearsDevice", d, s, i, who))
          \/ bound[d] = None /\ s # None /\ Begins(x, Approving("clearsSeat", d, s, i, who))
    BY DEF UnbindReads
  <1>2. Matching(d) => bound[d] = s /\ \A t \in Students : seat[t] = d <=> t = s
    BY <1>0, WhoSits
  <1>3. CASE Begins(x, Approving("clearsDevice", d, s, i, who))
    <2>1. /\ Approving("clearsDevice", d, s, i, who).at = "clearsDevice"
          /\ Approving("clearsDevice", d, s, i, who).device = d
          /\ Approving("clearsDevice", d, s, i, who).student = s
      BY Fields
    <2>2. req'[x] = Approving("clearsDevice", d, s, i, who) /\ Rested => Sits(req[x])'
      BY <1>2, <2>1, ReadsFit DEF Rested
    <2> QED BY <1>3, <2>1, <2>2, BeginsGo
  <1>4. CASE bound[d] = None /\ s # None /\ Begins(x, Approving("clearsSeat", d, s, i, who))
    <2>1. Approving("clearsSeat", d, s, i, who).at = "clearsSeat"
      BY Fields
    <2>2. Rested => failures # 0
      BY <1>2, <1>4 DEF Rested
    <2>3. req'[x] = Approving("clearsSeat", d, s, i, who) /\ Rested => Sits(req[x])'
      BY <2>1, <2>2, ReadsFit
    <2> QED BY <1>4, <2>1, <2>3, BeginsGo
  <1> QED BY <1>1, <1>3, <1>4

LEMMA AssistantOrder ==
  ASSUME OrderInv, Typed', NEW x \in Slots, NEW d \in Devices, Assistant(x, d)
  PROVE  OrderInv'
  <1>0. Typed
    BY DEF OrderInv
  <1>1. CASE UnbindDevice(x, d)
    BY <1>1, UnbindReadsOrder DEF UnbindDevice
  <1>2. CASE Unregister(x, d)
    <2>1. PICK s \in AnyOf(SeatedAt(d)) :
            \/ s # None /\ Begins(x, With("vacates", d, s))
            \/ s = None /\ Begins(x, For("destroys", d))
      BY <1>2 DEF Unregister
    <2>2. UNCHANGED tables /\ UNCHANGED failures
      BY <1>2 DEF Unregister
    <2>3. Matching(d) => \A t \in Students : seat[t] = d <=> t = s
      BY <1>0, WhoSits
    <2>4. s \in Students \/ s = None
      BY DEF AnyOf, SeatedAt
    <2>5. CASE s # None /\ Begins(x, With("vacates", d, s))
      <3>1. With("vacates", d, s).at = "vacates" /\ With("vacates", d, s).device = d
            /\ With("vacates", d, s).student = s
        BY Fields
      <3>2. req'[x] = With("vacates", d, s) /\ Rested => Sits(req[x])'
        BY <2>2, <2>3, <2>4, <2>5, <3>1, ReadsFit DEF Rested
      <3> QED BY <2>5, <3>1, <3>2, BeginsGo
    <2>6. CASE s = None /\ Begins(x, For("destroys", d))
      <3>1. For("destroys", d).at = "destroys" /\ For("destroys", d).device = d
        BY Fields
      <3>2. None \notin Students
        BY NamesAssumption
      <3>3. req'[x] = For("destroys", d) /\ Rested => Sits(req[x])'
        BY <2>2, <2>3, <2>6, <3>1, <3>2, ReadsFit DEF Rested
      <3> QED BY <2>6, <3>1, <3>3, BeginsGo
    <2> QED BY <2>1, <2>5, <2>6
  <1>3. ASSUME NEW i \in DOMAIN entry[d], ApproveSame(x, d, i) \/ ApproveNew(x, d, i) PROVE OrderInv'
    <2>1. UNCHANGED tables /\ UNCHANGED failures
      BY <1>3 DEF ApproveSame, ApproveNew
    <2>2. ASSUME NEW who, Begins(x, Approving("dropsPass", d, None, i, who)), bound[d] \in {None, who}
          PROVE  OrderInv'
      <3>1. /\ Approving("dropsPass", d, None, i, who).at = "dropsPass"
            /\ Approving("dropsPass", d, None, i, who).device = d
            /\ Approving("dropsPass", d, None, i, who).who = who
        BY Fields
      <3>2. req'[x] = Approving("dropsPass", d, None, i, who) /\ Rested => Sits(req[x])'
        BY <2>1, <2>2, <3>1, ReadsFit
      <3> QED BY <2>2, <3>1, <3>2, BeginsGo
    <2>3. CASE ApproveSame(x, d, i)
      BY <2>2, <2>3 DEF ApproveSame
    <2>4. CASE ApproveNew(x, d, i)
      BY <2>1, <2>2, <2>4, UnbindReadsOrder DEF ApproveNew
    <2> QED BY <1>3, <2>3, <2>4
  <1> QED BY <1>1, <1>2, <1>3 DEF Assistant

\* Seats are left only by calls that put the roster's address back, or fail.
LEMMA UnbindUserOrder ==
  ASSUME OrderInv, Typed', NEW x \in Slots, NEW s \in Students, UnbindUser(x, s)
  PROVE  OrderInv'
  <1>0. /\ Typed /\ None \notin Students /\ None \notin Devices /\ failures \in Nat
        /\ seat \in [Students -> Devices \union {None}] /\ address \in [Students -> Devices \union {None}]
        /\ bound \in [Devices -> Students \union {None}]
    BY NamesAssumption DEF OrderInv, Typed, Rows
  <1>1. UNCHANGED <<bound, pass, entry, registered>> /\ LeavesSeat(s)
    BY DEF UnbindUser
  <1>2. failures' = 0 =>
          /\ failures = 0
          /\ seat' = [seat EXCEPT ![s] = None] /\ address' = [address EXCEPT ![s] = Roster[s]]
    BY <1>0, <1>1 DEF LeavesSeat
  <1>3. Armed /\ failures' = 0 => Armed'
    BY <1>0, <1>2 DEF Armed
  <1>4. Rested => LatestPends' /\ (failures' = 0 => Armed' /\ OnePass' /\ \A d \in Devices : PassFits(d)')
    BY <1>1, <1>2, <1>3, EntriesStay, PassesStay DEF Rested
  <1>5. CASE seat[s] # None /\ Begins(x, For("freesDevice", seat[s]))
    <2>1. For("freesDevice", seat[s]).at = "freesDevice" /\ For("freesDevice", seat[s]).device = seat[s]
      BY Fields
    <2>2. ASSUME req'[x] = For("freesDevice", seat[s]), Rested PROVE Sits(req[x])'
      <3>1. Requesting(req[x])'
        BY <1>4, <2>1, <2>2 DEF Requesting
      <3>2. ASSUME failures' = 0 PROVE Seating(req[x])'
        <4>1. \A d \in Devices : Matching(d)
          BY <1>2, <2>2, <3>2 DEF Rested
        <4>2. \A d \in Devices : d # seat[s] => Matching(d)'
          BY <1>0, <1>1, <1>2, <3>2, <4>1 DEF Matching
        <4>3. \A t \in Students : seat'[t] # seat[s]
          BY <1>0, <1>2, <1>5, <3>2, <4>1 DEF Matching
        <4> QED BY <1>4, <2>1, <2>2, <3>2, <4>2, <4>3 DEF Seating, Between
      <3>3. failures' = 0 => Passing(req[x])'
        BY <1>4, <2>1, <2>2 DEF Passing, LoginPcs, ApprovalPcs
      <3> QED BY <3>1, <3>2, <3>3 DEF Sits
    <2> QED BY <1>5, <2>1, <2>2, BeginsGo
  <1>6. CASE seat[s] = None /\ Begins(x, Idle)
    <2>1. failures' = 0 => seat' = seat
      BY <1>0, <1>2, <1>6
    <2>2. failures' = 0 => \A d \in Devices : Matching(d) => Matching(d)'
      BY <1>1, <2>1 DEF Matching
    <2>3. Rested => Rested'
      BY <1>2, <1>4, <2>2 DEF Rested
    <2> QED BY <1>6, <2>3, BeginsRest
  <1> QED BY <1>5, <1>6 DEF UnbindUser

\* The writes of registration and of entry requests.
LEMMA CreatesOrder ==
  ASSUME OrderInv, Typed', NEW x \in Slots, CreatesDevice(x) \/ CreatesEntry(x)
  PROVE  OrderInv'
  <1>0. Typed
    BY DEF OrderInv
  <1>1. CASE CreatesDevice(x)
    <2>1. UNCHANGED <<bound, seat, address, pass, entry, failures>> /\ Moves(x, "creates", Idle)
      BY <1>1 DEF CreatesDevice
    <2>2. req[x].at = "creates" /\ Sits(req[x]) => Rested
      BY DEF Sits, Rested, Requesting, Seating, Passing, Between
    <2>3. Rested => Rested'
      BY <2>1, EntriesStay, SeatsStay, PassesStay DEF Rested
    <2> QED BY <2>1, <2>2, <2>3, MovesRest
  <1>2. CASE CreatesEntry(x)
    <2>1. /\ UNCHANGED <<bound, seat, address, pass, failures>> /\ Moves(x, "asks", Idle)
          /\ entry' = [entry EXCEPT ![req[x].device] = Append(@, "PENDING")]
      BY <1>2 DEF CreatesEntry
    <2>2. ASSUME req[x].at = "asks", Sits(req[x]) PROVE LatestPends'
      <3>1. LatestPends /\ \A i \in DOMAIN entry[req[x].device] : entry[req[x].device][i] # "PENDING"
        BY <2>2 DEF Sits, Requesting
      <3>2. ASSUME NEW d \in Devices, NEW i \in DOMAIN entry'[d], entry'[d][i] = "PENDING"
            PROVE  i = Len(entry'[d])
        <4>0. entry \in [Devices -> Seq(Statuses)] /\ entry[d] \in Seq(Statuses)
          BY <1>0 DEF Typed, Rows
        <4>1. CASE d = req[x].device
          <5>1. entry'[d] = Append(entry[d], "PENDING")
            BY <2>1, <4>0, <4>1
          <5>2. /\ Len(Append(entry[d], "PENDING")) = Len(entry[d]) + 1
                /\ i \in 1..Len(entry[d]) + 1
                /\ i \in 1..Len(entry[d]) => Append(entry[d], "PENDING")[i] = entry[d][i]
            BY <3>2, <4>0, <5>1
          <5> QED BY <3>1, <3>2, <4>0, <4>1, <5>1, <5>2
        <4>2. CASE d # req[x].device
          BY <2>1, <3>1, <3>2, <4>0, <4>2 DEF LatestPends
        <4> QED BY <4>1, <4>2
      <3> QED BY <3>2 DEF LatestPends
    <2>3. req[x].at = "asks" /\ Sits(req[x]) => Rested
      BY DEF Sits, Rested, Requesting, Seating, Passing, Between
    <2>4. req[x].at = "asks" /\ Sits(req[x]) => Rested'
      BY <2>1, <2>2, <2>3, SeatsStay, PassesStay DEF Rested
    <2> QED BY <2>1, <2>4, MovesRest
  <1> QED BY <1>1, <1>2

\* The write of the machine: until the user is written too the tables differ there.
LEMMA BindsDeviceOrder ==
  ASSUME OrderInv, Typed', NEW x \in Slots, BindsDevice(x)
  PROVE  OrderInv'
  <1> DEFINE d == req[x].device  s == req[x].student  r == ToSeats(x, seat[s] = d)
  <1>0. Typed /\ req[x].at = "binds"
    BY DEF OrderInv, BindsDevice, Moves
  <1>1. /\ d \in Devices /\ s \in Students /\ None \notin Students /\ None \notin Devices
        /\ seat \in [Students -> Devices \union {None}] /\ bound \in [Devices -> Students \union {None}]
    BY <1>0, NamesAssumption DEF Typed, Rows, SoundReqs, Sound, LoginPcs
  <1>2. UNCHANGED <<registered, seat, address, pass, entry, failures>>
    BY DEF BindsDevice
  <1>3. CASE Moves(x, "binds", r) /\ bound' = [bound EXCEPT ![d] = s]
    <2>1. r.at = "seats" /\ r.device = d /\ r.student = s /\ r.seated = (seat[s] = d) /\ r.spends = req[x].spends
      BY <1>0, FieldsKept
    <2>2. ASSUME req'[x] = r, Sits(req[x]) PROVE Sits(req[x])'
      <3>0. /\ req'[x].at = "seats" /\ req'[x].device = d /\ req'[x].student = s
            /\ req'[x].seated = (seat[s] = d) /\ req'[x].spends = req[x].spends
        BY <2>1, <2>2
      <3>1. Requesting(req[x])'
        BY <1>2, <2>2, <3>0, EntriesStay DEF Sits, Requesting
      <3>2. ASSUME failures = 0 PROVE Seating(req[x])'
        <4>1. /\ Armed /\ d \in registered /\ bound[d] \in {None, s} /\ seat[s] \in {None, d}
              /\ \A e \in Devices : Matching(e)
          BY <1>0, <2>2, <3>2 DEF Sits, Seating, Between
        <4>2. Armed'
          BY <1>2, <4>1 DEF Armed
        <4>3. \A e \in Devices : e # d => Matching(e)'
          BY <1>1, <1>2, <1>3, <4>1 DEF Matching
        <4>4. \A t \in Students : seat'[t] = d => t = s
          BY <1>1, <1>2, <4>1 DEF Matching
        <4>5. bound'[d] = s /\ d \in registered'
          BY <1>1, <1>2, <1>3, <4>1
        <4>6. seat'[s] = IF seat[s] = d THEN d ELSE None
          BY <1>2, <4>1
        <4> HIDE DEF d, s, r
        <4> QED BY <3>0, <4>2, <4>3, <4>4, <4>5, <4>6 DEF Seating, Between
      <3>3. ASSUME failures = 0 PROVE Passing(req[x])'
        <4>1. /\ OnePass /\ \A e \in Devices : PassFits(e)
              /\ pass[d] = IF req[x].spends = None THEN <<>> ELSE <<req[x].spends>>
          BY <1>0, <2>2, <3>3 DEF Sits, Passing, LoginPcs
        <4>2. OnePass' /\ pass'[d] = IF req[x].spends = None THEN <<>> ELSE <<req[x].spends>>
          BY <1>2, <4>1 DEF OnePass
        <4>3. \A e \in Devices : e # d => PassFits(e)'
          BY <1>1, <1>2, <1>3, <4>1 DEF PassFits
        <4> HIDE DEF d, s, r
        <4> QED BY <3>0, <4>2, <4>3 DEF Passing, ApprovalPcs
      <3> QED BY <1>2, <3>1, <3>2, <3>3 DEF Sits
    <2> HIDE DEF r
    <2> QED BY <1>3, <2>1, <2>2, MovesGo
  <1>4. CASE Moves(x, "binds", Idle) /\ UNCHANGED bound
    <2>1. req[x].at = "binds" /\ Sits(req[x]) => Rested
      BY DEF Sits, Rested, Requesting, Seating, Passing, Between
    <2>2. Rested => Rested'
      BY <1>2, <1>4, EntriesStay, SeatsStay, PassesStay DEF Rested
    <2> QED BY <1>4, <2>1, <2>2, MovesRest
  <1> QED BY <1>3, <1>4 DEF BindsDevice

\* What is left of a login, or of a machine's removal, where both tables agree again.
LEMMA RestedAgain ==
  ASSUME LatestPends', failures' = 0 => Armed' /\ OnePass' /\ \A d \in Devices : Matching(d)' /\ PassFits(d)'
  PROVE  Rested'
  BY DEF Rested

\* The write of the user.
LEMMA BindsSeatOrder ==
  ASSUME OrderInv, Typed', NEW x \in Slots, BindsSeat(x)
  PROVE  OrderInv'
  <1> DEFINE d == req[x].device  s == req[x].student
  <1>0. Typed /\ req[x].at = "seats"
    BY DEF OrderInv, BindsSeat, Moves
  <1>1. /\ d \in Devices /\ s \in Students /\ None \notin Students /\ None \notin Devices
        /\ seat \in [Students -> Devices \union {None}] /\ bound \in [Devices -> Students \union {None}]
        /\ address \in [Students -> Devices \union {None}]
    BY <1>0, NamesAssumption DEF Typed, Rows, SoundReqs, Sound, LoginPcs
  <1>2. UNCHANGED <<registered, bound, pass, entry, failures>>
    BY DEF BindsSeat
  <1>3. ASSUME Sits(req[x]), failures = 0
        PROVE  /\ Armed /\ d \in registered /\ bound[d] = s /\ seat[s] = IF req[x].seated THEN d ELSE None
               /\ \A t \in Students : seat[t] = d => t = s
               /\ \A e \in Devices : e # d => Matching(e)
               /\ OnePass /\ \A e \in Devices : e # d => PassFits(e)
               /\ pass[d] = IF req[x].spends = None THEN <<>> ELSE <<req[x].spends>>
    BY <1>0, <1>3 DEF Sits, Seating, Passing, LoginPcs
  <1>4. ASSUME Sits(req[x]), failures = 0 PROVE Armed' /\ \A e \in Devices : Matching(e)'
    <2>1. /\ req[x].seated /\ UNCHANGED <<seat, address>>
          \/ /\ ~ req[x].seated /\ seat' = [seat EXCEPT ![s] = d] /\ address' = [address EXCEPT ![s] = d]
      BY <1>3, <1>4 DEF BindsSeat
    <2>2. \A t \in Students : seat'[t] = IF t = s THEN d ELSE seat[t]
      BY <1>1, <1>3, <1>4, <2>1
    <2>3. \A t \in Students : address'[t] = IF t = s THEN d ELSE address[t]
      BY <1>1, <1>3, <1>4, <2>1 DEF Armed
    <2>4. Armed'
      BY <1>1, <1>3, <1>4, <2>2, <2>3 DEF Armed
    <2>5. ASSUME NEW e \in Devices PROVE Matching(e)'
      <3>1. CASE e = d
        BY <1>1, <1>2, <1>3, <1>4, <2>2, <3>1 DEF Matching
      <3>2. CASE e # d
        BY <1>1, <1>2, <1>3, <1>4, <2>2, <3>2 DEF Matching
      <3> QED BY <3>1, <3>2
    <2> QED BY <2>4, <2>5
  <1>5. Sits(req[x]) => LatestPends'
    BY <1>2, EntriesStay DEF Sits, Requesting
  <1>6. Sits(req[x]) /\ failures = 0 =>
          /\ OnePass' /\ \A e \in Devices : e # d => PassFits(e)'
          /\ pass'[d] = IF req[x].spends = None THEN <<>> ELSE <<req[x].spends>>
    BY <1>2, <1>3, PassesStay
  <1>7. CASE Moves(x, "seats", AfterSeats(x)) /\ req[x].spends # None
    <2>1. /\ AfterSeats(x).at = "spends" /\ AfterSeats(x).device = d
          /\ AfterSeats(x).spends = req[x].spends
      BY <1>0, <1>7, FieldsKept DEF AfterSeats
    <2>2. ASSUME req'[x] = AfterSeats(x), Sits(req[x]) PROVE Sits(req[x])'
      <3>0. req'[x].at = "spends" /\ req'[x].device = d /\ req'[x].spends = req[x].spends
        BY <2>1, <2>2
      <3> HIDE DEF d, s
      <3>1. Requesting(req[x])'
        BY <1>5, <2>2, <3>0 DEF Requesting
      <3>2. failures = 0 => Seating(req[x])'
        BY <1>4, <2>2, <3>0 DEF Seating
      <3>3. failures = 0 => Passing(req[x])'
        BY <1>6, <2>2, <3>0 DEF Passing, ApprovalPcs
      <3> QED BY <1>2, <3>1, <3>2, <3>3 DEF Sits
    <2> QED BY <1>7, <2>1, <2>2, MovesGo
  <1>8. CASE Moves(x, "seats", Idle)
    <2>1. ASSUME Sits(req[x]), failures = 0 PROVE req[x].spends = None
      <3>1. Moves(x, "seats", AfterSeats(x))
        BY <1>3, <2>1 DEF BindsSeat
      <3>2. AfterSeats(x).at = "idle"
        BY <1>0, <1>8, <3>1, Fields DEF Moves, Typed, SoundReqs
      <3> QED BY <1>0, <3>2, FieldsKept DEF AfterSeats
    <2>2. Sits(req[x]) /\ failures = 0 => \A e \in Devices : PassFits(e)'
      BY <1>6, <2>1 DEF PassFits
    <2>3. Sits(req[x]) => Rested'
      BY <1>2, <1>4, <1>5, <1>6, <2>2, RestedAgain
    <2> QED BY <1>8, <2>3, MovesRest
  <1> QED BY <1>7, <1>8 DEF BindsSeat, AfterSeats

\* The pass of a login, which has no other, is gone with it.
LEMMA RemoveOnly == \A e : RemoveFirst(<<e>>, e) = <<>>
  <1> SUFFICES ASSUME NEW e PROVE RemoveFirst(<<e>>, e) = <<>>
    OBVIOUS
  <1> DEFINE q == <<e>>  I == {i \in 1..Len(q) : q[i] = e}
  <1>1. Len(q) = 1 /\ q[1] = e /\ 1..Len(q) = {1}
    OBVIOUS
  <1>2. I = {1} /\ \E i \in 1..Len(q) : q[i] = e
    BY <1>1
  <1>3. Min(I) = 1
    BY <1>2 DEF Min
  <1>4. RemoveFirst(q, e) = SubSeq(q, 1, Min(I) - 1) \o SubSeq(q, Min(I) + 1, Len(q))
    BY <1>2 DEF RemoveFirst, RemoveAt, SelectInSeq
  <1>5. SubSeq(q, 1, 0) = <<>> /\ SubSeq(q, 2, 1) = <<>>
    BY <1>1
  <1> HIDE DEF I
  <1> QED BY <1>1, <1>3, <1>4, <1>5

LEMMA SpentAway ==
  ASSUME NEW row, NEW q, q = IF row = None THEN <<>> ELSE <<row>>
  PROVE  RemoveFirst(q, row) = <<>>
  <1>1. CASE row = None
    BY <1>1 DEF RemoveFirst
  <1>2. CASE row # None
    BY <1>2, RemoveOnly
  <1> QED BY <1>1, <1>2

LEMMA SpendsPassOrder ==
  ASSUME OrderInv, Typed', NEW x \in Slots, SpendsPass(x)
  PROVE  OrderInv'
  <1> DEFINE d == req[x].device
  <1>0. Typed /\ req[x].at = "spends" /\ d \in Devices /\ pass \in [Devices -> Seq(Passes)]
    BY DEF OrderInv, SpendsPass, Moves, Typed, Rows, SoundReqs, Sound
  <1>1. /\ UNCHANGED <<bound, seat, address, entry, failures>> /\ Moves(x, "spends", Idle)
        /\ pass' = [pass EXCEPT ![d] = RemoveFirst(@, req[x].spends)]
    BY DEF SpendsPass
  <1>2. ASSUME Sits(req[x]), failures = 0 PROVE Armed' /\ OnePass' /\ \A e \in Devices : Matching(e)' /\ PassFits(e)'
    <2>1. /\ Armed /\ OnePass /\ \A e \in Devices : Matching(e)
          /\ \A e \in Devices : e # d => PassFits(e)
          /\ pass[d] = IF req[x].spends = None THEN <<>> ELSE <<req[x].spends>>
      BY <1>0, <1>2 DEF Sits, Seating, Passing, Between, LoginPcs
    <2>2. pass'[d] = <<>>
      BY <1>0, <1>1, <2>1, SpentAway
    <2>3. \A e \in Devices : e # d => pass'[e] = pass[e]
      BY <1>0, <1>1
    <2>4. OnePass' /\ \A e \in Devices : PassFits(e)'
      BY <1>1, <2>1, <2>2, <2>3 DEF OnePass, PassFits
    <2> QED BY <1>1, <2>1, <2>4, SeatsStay
  <1>3. Sits(req[x]) => LatestPends'
    BY <1>1, EntriesStay DEF Sits, Requesting
  <1> QED BY <1>1, <1>2, <1>3, RestedAgain, MovesRest

\* What comes after a seat was cleared: nothing, or the approval it was cleared for.
LEMMA AfterwardsOrder ==
  ASSUME OrderInv, Typed', NEW x \in Slots, NEW place, place # "idle", Moves(x, place, Afterwards(x)),
         req[x].at = place /\ Sits(req[x]) => Rested' /\ (failures' = 0 => bound'[req[x].device] = None)
  PROVE  OrderInv'
  <1>0. Typed
    BY DEF OrderInv
  <1>1. CASE Afterwards(x) = Idle
    BY <1>1, MovesRest
  <1>2. CASE Afterwards(x) = To(x, "dropsPass")
    <2>1. Afterwards(x).at = "dropsPass" /\ Afterwards(x).device = req[x].device
      BY <1>0, <1>2, FieldsKept
    <2>2. ASSUME req'[x] = Afterwards(x), Rested', failures' = 0 => bound'[req[x].device] = None
          PROVE  Sits(req[x])'
      <3>1. req'[x].at = "dropsPass" /\ req'[x].device = req[x].device
        BY <2>1, <2>2
      <3>2. Requesting(req[x])'
        BY <2>2, <3>1 DEF Rested, Requesting
      <3>3. failures' = 0 => Seating(req[x])'
        BY <2>2, <3>1 DEF Rested, Seating
      <3>4. failures' = 0 => Passing(req[x])'
        BY <2>2, <3>1 DEF Rested, Passing, LoginPcs
      <3> QED BY <3>2, <3>3, <3>4 DEF Sits
    <2> QED BY <1>2, <2>1, <2>2, MovesGo
  <1> QED BY <1>1, <1>2 DEF Afterwards

LEMMA ClearsDeviceOrder ==
  ASSUME OrderInv, Typed', NEW x \in Slots, ClearsDevice(x)
  PROVE  OrderInv'
  <1> DEFINE d == req[x].device  s == req[x].student
  <1>0. /\ Typed /\ req[x].at = "clearsDevice" /\ d \in Devices /\ None \notin Students
        /\ seat \in [Students -> Devices \union {None}] /\ bound \in [Devices -> Students \union {None}]
        /\ s \in Students \union {None}
    BY NamesAssumption DEF OrderInv, ClearsDevice, Moves, Typed, Rows, SoundReqs, Sound, Requests
  <1>1. UNCHANGED <<seat, address, pass, entry, failures>> /\ bound' = [bound EXCEPT ![d] = None]
    BY DEF ClearsDevice
  <1>2. ASSUME Sits(req[x]), failures = 0
        PROVE  /\ Armed' /\ OnePass' /\ bound'[d] = None
               /\ \A e \in Devices : PassFits(e)' /\ (e # d => Matching(e)')
               /\ \A t \in Students : seat'[t] = d <=> t = s
    <2>1. /\ Armed /\ OnePass /\ \A e \in Devices : PassFits(e) /\ Matching(e)
          /\ \A t \in Students : seat[t] = d <=> t = s
      BY <1>0, <1>2 DEF Sits, Seating, Passing, Between
    <2>2. Armed' /\ OnePass' /\ bound'[d] = None /\ \A e \in Devices : e # d => bound'[e] = bound[e]
      BY <1>0, <1>1, <2>1 DEF Armed, OnePass
    <2>3. \A e \in Devices : PassFits(e)' /\ (e # d => Matching(e)')
      BY <1>1, <2>1, <2>2 DEF PassFits, Matching
    <2> QED BY <1>1, <2>1, <2>2, <2>3
  <1>3. Sits(req[x]) => LatestPends'
    BY <1>1, EntriesStay DEF Sits, Requesting
  <1>4. CASE s # None /\ Moves(x, "clearsDevice", To(x, "clearsSeat"))
    <2>1. To(x, "clearsSeat").at = "clearsSeat" /\ To(x, "clearsSeat").device = d /\ To(x, "clearsSeat").student = s
      BY <1>0, FieldsKept
    <2>2. ASSUME req'[x] = To(x, "clearsSeat"), Sits(req[x]) PROVE Sits(req[x])'
      <3>1. req'[x].at = "clearsSeat" /\ req'[x].device = d /\ req'[x].student = s
        BY <2>1, <2>2
      <3> HIDE DEF d, s
      <3>2. Requesting(req[x])'
        BY <1>3, <2>2, <3>1 DEF Requesting
      <3>3. failures = 0 => Seating(req[x])'
        BY <1>2, <2>2, <3>1 DEF Seating, Between
      <3>4. failures = 0 => Passing(req[x])'
        BY <1>2, <2>2, <3>1 DEF Passing, LoginPcs, ApprovalPcs
      <3> QED BY <1>1, <3>2, <3>3, <3>4 DEF Sits
    <2> QED BY <1>4, <2>1, <2>2, MovesGo
  <1>5. CASE s = None /\ Moves(x, "clearsDevice", Afterwards(x))
    <2>1. ASSUME Sits(req[x]), failures = 0, NEW e \in Devices, e = d PROVE Matching(e)'
      BY <1>0, <1>2, <1>5, <2>1 DEF Matching
    <2>2. Sits(req[x]) => Rested' /\ (failures' = 0 => bound'[d] = None)
      BY <1>1, <1>2, <1>3, <2>1, RestedAgain
    <2> QED BY <1>5, <2>2, AfterwardsOrder
  <1> QED BY <1>4, <1>5 DEF ClearsDevice

\* The user leaves a machine that is bound to nobody, or about to be deleted.
LEMMA LeavesSeatOrder ==
  ASSUME Typed, NEW s \in Students, LeavesSeat(s), UNCHANGED <<bound, pass, entry>>
  PROVE  /\ failures' = 0 => failures = 0 /\ seat'[s] = None
         /\ failures' = 0 => \A t \in Students : t # s => seat'[t] = seat[t]
         /\ failures' = 0 /\ Armed => Armed'
         /\ failures' = 0 => \A d \in Devices : seat[s] # d /\ Matching(d) => Matching(d)'
  <1>0. /\ None \notin Students /\ None \notin Devices /\ failures \in Nat
        /\ seat \in [Students -> Devices \union {None}] /\ address \in [Students -> Devices \union {None}]
        /\ bound \in [Devices -> Students \union {None}]
    BY NamesAssumption DEF Typed, Rows
  <1>1. failures' = 0 =>
          /\ failures = 0
          /\ seat' = [seat EXCEPT ![s] = None] /\ address' = [address EXCEPT ![s] = Roster[s]]
    BY <1>0 DEF LeavesSeat
  <1>2. failures' = 0 => seat'[s] = None /\ \A t \in Students : t # s => seat'[t] = seat[t]
    BY <1>0, <1>1
  <1>3. failures' = 0 /\ Armed => Armed'
    BY <1>0, <1>1 DEF Armed
  <1>4. failures' = 0 => \A d \in Devices : seat[s] # d /\ Matching(d) => Matching(d)'
    BY <1>0, <1>2 DEF Matching
  <1> QED BY <1>1, <1>2, <1>3, <1>4

LEMMA ClearsSeatOrder ==
  ASSUME OrderInv, Typed', NEW x \in Slots, ClearsSeat(x)
  PROVE  OrderInv'
  <1> DEFINE d == req[x].device  s == req[x].student
  <1>0. /\ Typed /\ req[x].at = "clearsSeat" /\ d \in Devices /\ s \in Students
        /\ None \notin Students /\ None \notin Devices
    BY NamesAssumption DEF OrderInv, ClearsSeat, Moves, Typed, Rows, SoundReqs, Sound, Requests
  <1>1. UNCHANGED <<bound, pass, entry>> /\ LeavesSeat(s) /\ Moves(x, "clearsSeat", Afterwards(x))
    BY DEF ClearsSeat
  <1>2. ASSUME Sits(req[x]), failures' = 0
        PROVE  Armed' /\ OnePass' /\ bound'[d] = None /\ \A e \in Devices : PassFits(e)' /\ Matching(e)'
    <2>0. failures = 0
      BY <1>0, <1>1, <1>2, LeavesSeatOrder
    <2>1. /\ Armed /\ OnePass /\ bound[d] = None
          /\ \A e \in Devices : PassFits(e) /\ (e # d => Matching(e))
          /\ \A t \in Students : seat[t] = d <=> t = s
      BY <1>0, <1>2, <2>0 DEF Sits, Seating, Passing
    <2>2. Armed' /\ \A e \in Devices : e # d => Matching(e)'
      BY <1>0, <1>1, <1>2, <2>1, LeavesSeatOrder
    <2>3. bound'[d] = None /\ \A t \in Students : seat'[t] # d
      BY <1>0, <1>1, <1>2, <2>1, LeavesSeatOrder
    <2>4. ASSUME NEW e \in Devices, e = d PROVE Matching(e)'
      BY <1>0, <2>3, <2>4 DEF Matching
    <2> QED BY <1>1, <2>1, <2>2, <2>3, <2>4, PassesStay
  <1>3. Sits(req[x]) => LatestPends'
    BY <1>1, EntriesStay DEF Sits, Requesting
  <1>4. Sits(req[x]) => Rested' /\ (failures' = 0 => bound'[d] = None)
    BY <1>2, <1>3, RestedAgain
  <1> QED BY <1>1, <1>4, AfterwardsOrder

LEMMA FreesDeviceOrder ==
  ASSUME OrderInv, Typed', NEW x \in Slots, FreesDevice(x)
  PROVE  OrderInv'
  <1> DEFINE d == req[x].device
  <1>0. /\ Typed /\ req[x].at = "freesDevice" /\ d \in Devices /\ None \notin Students
        /\ bound \in [Devices -> Students \union {None}]
    BY NamesAssumption DEF OrderInv, FreesDevice, Moves, Typed, Rows, SoundReqs, Sound
  <1>1. /\ UNCHANGED <<seat, address, pass, entry, failures>> /\ bound' = [bound EXCEPT ![d] = None]
        /\ Moves(x, "freesDevice", Idle)
    BY DEF FreesDevice
  <1>2. ASSUME Sits(req[x]), failures = 0
        PROVE  Armed' /\ OnePass' /\ \A e \in Devices : Matching(e)' /\ PassFits(e)'
    <2>1. /\ Armed /\ OnePass /\ \A t \in Students : seat[t] # d
          /\ \A e \in Devices : PassFits(e) /\ (e # d => Matching(e))
      BY <1>0, <1>2 DEF Sits, Seating, Passing
    <2>2. Armed' /\ OnePass' /\ bound'[d] = None /\ \A e \in Devices : e # d => bound'[e] = bound[e]
      BY <1>0, <1>1, <2>1 DEF Armed, OnePass
    <2>3. \A e \in Devices : PassFits(e)' /\ Matching(e)'
      BY <1>0, <1>1, <2>1, <2>2 DEF PassFits, Matching
    <2> QED BY <2>2, <2>3
  <1>3. Sits(req[x]) => LatestPends'
    BY <1>1, EntriesStay DEF Sits, Requesting
  <1> QED BY <1>1, <1>2, <1>3, RestedAgain, MovesRest

LEMMA VacatesOrder ==
  ASSUME OrderInv, Typed', NEW x \in Slots, Vacates(x)
  PROVE  OrderInv'
  <1> DEFINE d == req[x].device  s == req[x].student
  <1>0. /\ Typed /\ req[x].at = "vacates" /\ d \in Devices /\ s \in Students
        /\ None \notin Students /\ None \notin Devices
    BY NamesAssumption DEF OrderInv, Vacates, Moves, Typed, Rows, SoundReqs, Sound, Requests
  <1>1. UNCHANGED <<bound, pass, entry>> /\ LeavesSeat(s) /\ Moves(x, "vacates", To(x, "destroys"))
    BY DEF Vacates
  <1>2. ASSUME Sits(req[x]), failures' = 0
        PROVE  /\ Armed' /\ OnePass' /\ \A t \in Students : seat'[t] # d
               /\ \A e \in Devices : PassFits(e)' /\ (e # d => Matching(e)')
    <2>0. failures = 0
      BY <1>0, <1>1, <1>2, LeavesSeatOrder
    <2>1. /\ Armed /\ OnePass /\ seat[s] = d
          /\ \A e \in Devices : PassFits(e) /\ Matching(e)
      BY <1>0, <1>2, <2>0 DEF Sits, Seating, Passing, Between
    <2>2. \A t \in Students : seat[t] = d => t = s
      BY <1>0, <2>1 DEF Matching
    <2>3. Armed' /\ \A e \in Devices : e # d => Matching(e)'
      BY <1>0, <1>1, <1>2, <2>1, LeavesSeatOrder
    <2>4. \A t \in Students : seat'[t] # d
      BY <1>0, <1>1, <1>2, <2>1, <2>2, LeavesSeatOrder
    <2> QED BY <1>1, <2>1, <2>3, <2>4, PassesStay
  <1>3. Sits(req[x]) => LatestPends'
    BY <1>1, EntriesStay DEF Sits, Requesting
  <1>4. To(x, "destroys").at = "destroys" /\ To(x, "destroys").device = d
    BY <1>0, FieldsKept
  <1>5. ASSUME req'[x] = To(x, "destroys"), Sits(req[x]) PROVE Sits(req[x])'
    <2>1. req'[x].at = "destroys" /\ req'[x].device = d
      BY <1>4, <1>5
    <2> HIDE DEF d, s
    <2>2. Requesting(req[x])'
      BY <1>3, <1>5, <2>1 DEF Requesting
    <2>3. failures' = 0 => Seating(req[x])'
      BY <1>2, <1>5, <2>1 DEF Seating, Between
    <2>4. failures' = 0 => Passing(req[x])'
      BY <1>2, <1>5, <2>1 DEF Passing, LoginPcs, ApprovalPcs
    <2> QED BY <2>2, <2>3, <2>4 DEF Sits
  <1> QED BY <1>1, <1>4, <1>5, MovesGo

LEMMA DestroysDeviceOrder ==
  ASSUME OrderInv, Typed', NEW x \in Slots, DestroysDevice(x)
  PROVE  OrderInv'
  <1> DEFINE d == req[x].device
  <1>0. /\ Typed /\ req[x].at = "destroys" /\ d \in Devices /\ None \notin Students
        /\ bound \in [Devices -> Students \union {None}] /\ seat \in [Students -> Devices \union {None}]
    BY NamesAssumption DEF OrderInv, DestroysDevice, Moves, Typed, Rows, SoundReqs, Sound
  <1>1. /\ UNCHANGED <<address, pass, entry, failures>> /\ bound' = [bound EXCEPT ![d] = None]
        /\ seat' = [s \in Students |-> IF seat[s] = d THEN None ELSE seat[s]]
        /\ Moves(x, "destroys", Idle)
    BY DEF DestroysDevice
  <1>2. ASSUME Sits(req[x]), failures = 0
        PROVE  Armed' /\ OnePass' /\ \A e \in Devices : Matching(e)' /\ PassFits(e)'
    <2>1. /\ Armed /\ OnePass /\ \A t \in Students : seat[t] # d
          /\ \A e \in Devices : PassFits(e) /\ (e # d => Matching(e))
      BY <1>0, <1>2 DEF Sits, Seating, Passing
    <2>2. \A t \in Students : seat'[t] = seat[t]
      BY <1>1, <2>1
    <2>3. Armed' /\ OnePass' /\ bound'[d] = None /\ \A e \in Devices : e # d => bound'[e] = bound[e]
      BY <1>0, <1>1, <2>1, <2>2 DEF Armed, OnePass
    <2>4. \A e \in Devices : PassFits(e)' /\ Matching(e)'
      BY <1>0, <1>1, <2>1, <2>2, <2>3 DEF PassFits, Matching
    <2> QED BY <2>3, <2>4
  <1>3. Sits(req[x]) => LatestPends'
    BY <1>1, EntriesStay DEF Sits, Requesting
  <1> QED BY <1>1, <1>2, <1>3, RestedAgain, MovesRest

LEMMA DropsPassOrder ==
  ASSUME OrderInv, Typed', NEW x \in Slots, DropsPass(x)
  PROVE  OrderInv'
  <1> DEFINE d == req[x].device
  <1>0. Typed /\ req[x].at = "dropsPass" /\ d \in Devices /\ pass \in [Devices -> Seq(Passes)]
    BY DEF OrderInv, DropsPass, Moves, Typed, Rows, SoundReqs, Sound
  <1>1. /\ UNCHANGED <<registered, bound, seat, address, entry, failures>> /\ pass' = [pass EXCEPT ![d] = <<>>]
        /\ Moves(x, "dropsPass", To(x, "grantsPass"))
    BY DEF DropsPass
  <1>2. /\ To(x, "grantsPass").at = "grantsPass" /\ To(x, "grantsPass").device = d
        /\ To(x, "grantsPass").who = req[x].who
    BY <1>0 DEF To, Typed, SoundReqs, Requests
  <1>3. pass'[d] = <<>> /\ \A e \in Devices : e # d => pass'[e] = pass[e]
    BY <1>0, <1>1
  <1>4. ASSUME req'[x] = To(x, "grantsPass"), Sits(req[x]) PROVE Sits(req[x])'
    <2>0. req'[x].at = "grantsPass" /\ req'[x].device = d /\ req'[x].who = req[x].who
      BY <1>2, <1>4
    <2>1. Requesting(req[x])'
      BY <1>1, <1>4, <2>0, EntriesStay DEF Sits, Requesting
    <2>2. ASSUME failures = 0 PROVE Seating(req[x])' /\ Passing(req[x])'
      <3>1. /\ Armed /\ OnePass /\ \A e \in Devices : Matching(e) /\ PassFits(e)
            /\ bound[d] \in {None, req[x].who}
        BY <1>0, <1>4, <2>2 DEF Sits, Seating, Passing, Between, ApprovalPcs
      <3>2. Armed' /\ \A e \in Devices : Matching(e)'
        BY <1>1, <3>1, SeatsStay
      <3>3. OnePass' /\ \A e \in Devices : PassFits(e)'
        BY <1>1, <1>3, <3>1 DEF OnePass, PassFits
      <3>4. bound'[d] \in {None, req[x].who}
        BY <1>1, <3>1
      <3> HIDE DEF d
      <3> QED BY <1>3, <2>0, <3>2, <3>3, <3>4 DEF Seating, Passing, LoginPcs
    <2> QED BY <1>1, <2>1, <2>2 DEF Sits
  <1> QED BY <1>1, <1>2, <1>4, MovesGo

LEMMA GrantsPassOrder ==
  ASSUME OrderInv, Typed', NEW x \in Slots, GrantsPass(x)
  PROVE  OrderInv'
  <1> DEFINE d == req[x].device  row == [entry |-> req[x].entry, who |-> req[x].who]
  <1>0. Typed /\ req[x].at = "grantsPass" /\ d \in Devices /\ pass \in [Devices -> Seq(Passes)]
    BY DEF OrderInv, GrantsPass, Moves, Typed, Rows, SoundReqs, Sound
  <1>1. /\ UNCHANGED <<registered, bound, seat, address, entry, failures>>
        /\ pass' = [pass EXCEPT ![d] = Append(@, row)]
        /\ Moves(x, "grantsPass", To(x, "closesEntry"))
    BY DEF GrantsPass
  <1>2. /\ To(x, "closesEntry").at = "closesEntry" /\ To(x, "closesEntry").device = d
        /\ To(x, "closesEntry").who = req[x].who
    BY <1>0 DEF To, Typed, SoundReqs, Requests
  <1>3. pass'[d] = Append(pass[d], row) /\ \A e \in Devices : e # d => pass'[e] = pass[e]
    BY <1>0, <1>1
  <1>a. row.who = req[x].who
    OBVIOUS
  <1> HIDE DEF row
  <1>4. Len(Append(<<>>, row)) = 1 /\ Head(Append(<<>>, row)) = row
    OBVIOUS
  <1>5. ASSUME req'[x] = To(x, "closesEntry"), Sits(req[x]) PROVE Sits(req[x])'
    <2>0. req'[x].at = "closesEntry" /\ req'[x].device = d /\ req'[x].who = req[x].who
      BY <1>2, <1>5
    <2>1. Requesting(req[x])'
      BY <1>1, <1>5, <2>0, EntriesStay DEF Sits, Requesting
    <2>2. ASSUME failures = 0 PROVE Seating(req[x])' /\ Passing(req[x])'
      <3>1. /\ Armed /\ OnePass /\ \A e \in Devices : Matching(e) /\ PassFits(e)
            /\ bound[d] \in {None, req[x].who} /\ pass[d] = <<>>
        BY <1>0, <1>5, <2>2 DEF Sits, Seating, Passing, Between, ApprovalPcs
      <3>2. Armed' /\ \A e \in Devices : Matching(e)'
        BY <1>1, <3>1, SeatsStay
      <3>3. Len(pass'[d]) = 1 /\ Head(pass'[d]).who = req[x].who /\ bound'[d] \in {None, req[x].who}
        BY <1>1, <1>3, <1>a, <1>4, <3>1
      <3>4. OnePass' /\ \A e \in Devices : PassFits(e)'
        BY <1>1, <1>3, <3>1, <3>3 DEF OnePass, PassFits
      <3> HIDE DEF d
      <3> QED BY <2>0, <3>2, <3>3, <3>4 DEF Seating, Passing, LoginPcs
    <2> QED BY <1>1, <2>1, <2>2 DEF Sits
  <1> QED BY <1>1, <1>2, <1>5, MovesGo

\* Deciding on an entry request leaves no more of them pending than before.
LEMMA Decides ==
  ASSUME Typed, NEW d \in Devices, NEW i, NEW status, status # "PENDING",
         entry' = [entry EXCEPT ![d][i] = status]
  PROVE  /\ LatestPends => LatestPends'
         /\ \A e \in Devices : (\A j \in DOMAIN entry[e] : entry[e][j] # "PENDING") =>
                                 \A j \in DOMAIN entry'[e] : entry'[e][j] # "PENDING"
  <1>1. entry \in [Devices -> Seq(Statuses)]
    BY DEF Typed, Rows
  <1>2. ASSUME NEW e \in Devices
        PROVE  /\ DOMAIN entry'[e] = DOMAIN entry[e] /\ Len(entry'[e]) = Len(entry[e])
               /\ \A j \in DOMAIN entry[e] : entry'[e][j] = "PENDING" => entry[e][j] = "PENDING"
    <2>0. DOMAIN entry[e] = 1..Len(entry[e]) /\ Len(entry[e]) \in Nat
      BY <1>1, LenProperties
    <2>1. CASE e = d
      <3>1. entry'[e] = [entry[e] EXCEPT ![i] = status]
        BY <1>1, <2>1
      <3>2. DOMAIN entry'[e] = DOMAIN entry[e]
        BY <3>1
      <3>3. \A j \in DOMAIN entry[e] : entry'[e][j] = IF j = i THEN status ELSE entry[e][j]
        BY <3>1
      <3>4. Len(entry'[e]) = Len(entry[e])
        <4>1. status \in {status} \union Statuses /\ entry[e] \in Seq({status} \union Statuses)
          BY <1>1
        <4>2. entry'[e] \in Seq({status} \union Statuses)
          BY <3>1, <4>1, WriteType
        <4> QED BY <2>0, <3>2, <4>2, LenProperties
      <3> QED BY <3>2, <3>3, <3>4
    <2>2. CASE e # d
      BY <1>1, <2>2
    <2> QED BY <2>1, <2>2
  <1> QED BY <1>2 DEF LatestPends

LEMMA ClosesEntryOrder ==
  ASSUME OrderInv, Typed', NEW x \in Slots, ClosesEntry(x)
  PROVE  OrderInv'
  <1>0. Typed /\ req[x].at = "closesEntry" /\ req[x].device \in Devices
    BY DEF OrderInv, ClosesEntry, Moves, Typed, SoundReqs, Sound
  <1>1. /\ UNCHANGED <<bound, seat, address, pass, failures>> /\ Moves(x, "closesEntry", Idle)
        /\ entry' = [entry EXCEPT ![req[x].device][req[x].entry] = "ALLOWED"]
    BY DEF ClosesEntry
  <1>2. LatestPends => LatestPends'
    BY <1>0, <1>1, Decides
  <1>3. req[x].at = "closesEntry" /\ Sits(req[x]) => Rested
    BY DEF Sits, Rested, Requesting, Seating, Passing, Between
  <1>4. Rested => Rested'
    BY <1>1, <1>2, SeatsStay, PassesStay DEF Rested
  <1> QED BY <1>1, <1>3, <1>4, MovesRest

LEMMA ContinuesOrder ==
  ASSUME OrderInv, Typed', NEW x \in Slots, Continues(x)
  PROVE  OrderInv'
  BY CreatesOrder, BindsDeviceOrder, BindsSeatOrder, SpendsPassOrder, ClearsDeviceOrder, ClearsSeatOrder,
     FreesDeviceOrder, VacatesOrder, DestroysDeviceOrder, DropsPassOrder, GrantsPassOrder, ClosesEntryOrder
     DEF Continues

\* A request that breaks off, alone or with the process, leaves the entry requests as they were.
LEMMA BreaksOrder ==
  ASSUME OrderInv, Typed', Crash \/ \E x \in Slots : Fails(x)
  PROVE  OrderInv'
  <1>0. /\ req \in [Slots -> Requests] /\ UNCHANGED <<entry, overlapped>> /\ failures' # 0
    BY DEF OrderInv, Typed, Rows, SoundReqs, Crash, Fails, tables
  <1>1. PICK x \in Slots : req[x].at # "idle"
    BY DEF Crash, Fails, Busy
  <1>2. ~ overlapped => Alone(x) /\ LatestPends
    BY <1>1 DEF OrderInv, Sits, Requesting
  <1>3. ~ overlapped => LatestPends'
    BY <1>0, <1>2, EntriesStay
  <1>4. ~ overlapped => \A y \in Slots : req'[y].at = "idle"
    <2>1. CASE Crash
      BY <2>1, Fields DEF Crash
    <2>2. ASSUME NEW y \in Slots, Fails(y) PROVE ~ overlapped => \A z \in Slots : req'[z].at = "idle"
      <3>1. req[y].at # "idle" /\ req' = [req EXCEPT ![y] = Idle]
        BY <2>2 DEF Fails, Busy
      <3>2. ~ overlapped => \A z \in Slots : z # y => req[z].at = "idle"
        BY <3>1 DEF OrderInv, Alone
      <3> QED BY <1>0, <3>1, <3>2, Fields
    <2> QED BY <2>1, <2>2
  <1> QED BY <1>0, <1>3, <1>4 DEF OrderInv, Rested

\* The steps of others: an assistant rejects, the gate opens or closes.
LEMMA AsideOrder ==
  ASSUME OrderInv, Typed', Switch \/ (\E d \in Devices : \E i \in DOMAIN entry[d] : Reject(d, i)) \/ UNCHANGED vars
  PROVE  OrderInv'
  <1>0. Typed /\ UNCHANGED <<registered, bound, seat, address, pass, req, overlapped, failures>>
    BY DEF OrderInv, Switch, Reject, vars, tables
  <1>1. /\ LatestPends => LatestPends'
        /\ \A e \in Devices : (\A j \in DOMAIN entry[e] : entry[e][j] # "PENDING") =>
                                \A j \in DOMAIN entry'[e] : entry'[e][j] # "PENDING"
    <2>1. CASE UNCHANGED entry
      BY <2>1, EntriesStay
    <2>2. ASSUME NEW d \in Devices, NEW i, Reject(d, i)
          PROVE  /\ LatestPends => LatestPends'
                 /\ \A e \in Devices : (\A j \in DOMAIN entry[e] : entry[e][j] # "PENDING") =>
                                         \A j \in DOMAIN entry'[e] : entry'[e][j] # "PENDING"
      <3>1. entry' = [entry EXCEPT ![d][i] = "REJECTED"]
        BY <2>2 DEF Reject
      <3> QED BY <1>0, <3>1, Decides
    <2>3. UNCHANGED entry \/ \E d \in Devices : \E i \in DOMAIN entry[d] : Reject(d, i)
      BY DEF Switch, vars, tables
    <2> QED BY <2>1, <2>2, <2>3
  <1>2. ASSUME Rested PROVE Rested'
    BY <1>0, <1>1, <1>2, SeatsStay, PassesStay DEF Rested
  <1>3. ASSUME NEW x \in Slots, Sits(req[x]), req[x].at # "idle" PROVE Sits(req[x])'
    <2>0. req'[x] = req[x] /\ req[x].device \in Devices
      BY <1>0, <1>3 DEF Typed, SoundReqs, Sound
    <2>1. Requesting(req[x])'
      BY <1>1, <1>3, <2>0 DEF Sits, Requesting
    <2>2. failures = 0 => Seating(req[x])'
      BY <1>0, <1>3, SeatsStay DEF Sits, Seating
    <2>3. failures = 0 => Passing(req[x])'
      BY <1>0, <1>3, PassesStay DEF Sits, Passing
    <2> QED BY <1>0, <2>1, <2>2, <2>3 DEF Sits
  <1> QED BY <1>0, <1>2, <1>3 DEF OrderInv, Alone

LEMMA InitOrder == Init => OrderInv
  <1> SUFFICES ASSUME Init PROVE OrderInv
    OBVIOUS
  <1>0. Typed /\ \A x \in Slots : req[x].at = "idle"
    BY InitTyped, Fields DEF Init
  <1>1. LatestPends /\ OnePass /\ Armed
    BY DEF Init, LatestPends, OnePass, Armed
  <1>2. \A d \in Devices : Matching(d) /\ PassFits(d)
    BY NamesAssumption DEF Init, Matching, PassFits
  <1> QED BY <1>0, <1>1, <1>2 DEF OrderInv, Rested

LEMMA OrderStep == OrderInv /\ [Next]_vars => OrderInv'
  <1> SUFFICES ASSUME OrderInv, [Next]_vars PROVE OrderInv'
    OBVIOUS
  <1>1. Typed'
    BY TypeStep DEF OrderInv
  <1> QED BY <1>1, MachineOrder, AssistantOrder, UnbindUserOrder, ContinuesOrder, BreaksOrder, AsideOrder DEF Next

LEMMA OrderHolds == Spec => []OrderInv
  BY InitOrder, OrderStep, PTL DEF Spec

\* While requests come one after the other and none breaks off, the two tables say the same of who sits
\* where, and a seat that is free is guarded by the roster's address.
THEOREM SeatsStaySound == Spec => []SeatsAreSound
  <1>1. ASSUME OrderInv PROVE SeatsAreSound
    <2> SUFFICES ASSUME Orderly PROVE /\ \A d \in Devices, s \in Students : bound[d] = s <=> seat[s] = d
                                      /\ \A s \in Students : seat[s] = None => address[s] = Roster[s]
      BY DEF SeatsAreSound, BindingsAgree, SeatCheckArmed
    <2>1. Rested /\ failures = 0
      BY <1>1 DEF OrderInv, Orderly, Quiet, Busy
    <2> QED BY <2>1 DEF Rested, Armed, Matching
  <1> QED BY <1>1, OrderHolds, PTL

\* Then, too, whoever sits at a machine may sign in there again; and no machine ever has two entry
\* requests to decide on, whatever breaks off.
THEOREM GateStaysSound == Spec => []GateIsSound
  <1>1. ASSUME OrderInv PROVE MayReturn
    <2> SUFFICES ASSUME Orderly, NEW d \in registered, NEW s \in Students, Together(d, s) PROVE MayLogin(d, s)
      BY DEF MayReturn
    <2>1. Rested /\ failures = 0 /\ d \in Devices
      BY <1>1 DEF OrderInv, Orderly, Quiet, Busy, Typed, Rows
    <2>2. bound[d] = s /\ seat[s] = d /\ s # None /\ d # None
      BY <2>1, NamesAssumption DEF Together
    <2>3. address[s] = d
      BY <2>1, <2>2 DEF Rested, Armed
    <2>4. pass[d] # <<>> => Head(pass[d]).who = s
      BY <2>1, <2>2 DEF Rested, PassFits
    <2> QED BY <2>2, <2>3, <2>4 DEF MayLogin, Valid
  <1>2. ASSUME OrderInv PROVE OnePendingRequest
    <2> SUFFICES ASSUME ~ overlapped, NEW d \in Devices
                 PROVE  Cardinality({i \in DOMAIN entry[d] : Pending(d, i)}) <= 1
      BY DEF OnePendingRequest
    <2>1. LatestPends
      BY <1>2 DEF OrderInv, Rested, Sits, Requesting
    <2>2. {i \in DOMAIN entry[d] : Pending(d, i)} \subseteq {Len(entry[d])}
      BY <2>1 DEF LatestPends, Pending
    <2>3. IsFiniteSet({Len(entry[d])}) /\ Cardinality({Len(entry[d])}) = 1
      BY FS_Singleton
    <2>4. Cardinality({i \in DOMAIN entry[d] : Pending(d, i)}) <= Cardinality({Len(entry[d])})
      BY <2>2, <2>3, FS_Subset
    <2> QED BY <2>3, <2>4
  <1> QED BY <1>1, <1>2, OrderHolds, PTL DEF GateIsSound

--------------------------------------------------------------------------------
(* The plan of who sits where *)

Calm == ~ overlapped /\ failures = 0
Keeps == [Plan!Next]_(Plan!vars)

\* What r, under way, has found out for the write that the plan sees: a login was let in by the roster or
\* by its pass, and an approval is for who sits there or, nobody sitting there, for anyone.
Leads(r) ==
  /\ r.at \in {"binds", "seats"} /\ r.spends = None /\ seat[r.student] = None =>
       Roster[r.student] \in {None, r.device}
  /\ r.at \in {"binds", "seats"} /\ r.spends # None =>
       \/ r.spends.who = Anyone /\ seat[r.student] = None
       \/ r.spends.who = r.student /\ seat[r.student] = r.device
  /\ r.at \in {"clearsDevice", "clearsSeat"} /\ r.entry # 0 => r.who = Anyone
  /\ r.at \in {"dropsPass", "grantsPass"} =>
       \/ r.who = Anyone /\ bound[r.device] = None
       \/ r.who \in Students /\ bound[r.device] = r.who

PlanInv == OrderInv /\ (Calm => \A x \in Slots : Leads(req[x]))

\* The approval of a machine as r, alone under way, leaves it to be read.
GrantWith(r, d) ==
  IF r.at = "spends" /\ r.device = d THEN None
  ELSE IF r.at = "grantsPass" /\ r.device = d THEN r.who
  ELSE IF pass[d] = <<>> THEN None ELSE Head(pass[d]).who

LEMMA GrantRead == \A x \in Slots : Alone(x) => \A d \in Devices : GrantOf(d) = GrantWith(req[x], d)
  <1> SUFFICES ASSUME NEW x \in Slots, Alone(x), NEW d \in Devices PROVE GrantOf(d) = GrantWith(req[x], d)
    OBVIOUS
  <1>1. ASSUME NEW place, place # "idle"
        PROVE  At(place, d) = IF req[x].at = place /\ req[x].device = d THEN {x} ELSE {}
    BY <1>1 DEF At, Alone
  <1>2. /\ At("spends", d) = IF req[x].at = "spends" /\ req[x].device = d THEN {x} ELSE {}
        /\ At("grantsPass", d) = IF req[x].at = "grantsPass" /\ req[x].device = d THEN {x} ELSE {}
    BY <1>1
  <1>3. (CHOOSE y \in {x} : TRUE) = x
    OBVIOUS
  <1>4. CASE req[x].at = "grantsPass" /\ req[x].device = d
    <2>1. At("spends", d) = {} /\ At("grantsPass", d) = {x}
      BY <1>2, <1>4
    <2> QED BY <1>3, <1>4, <2>1 DEF GrantOf, GrantWith
  <1>5. CASE ~ (req[x].at = "grantsPass" /\ req[x].device = d)
    BY <1>2, <1>5 DEF GrantOf, GrantWith
  <1> QED BY <1>4, <1>5

LEMMA GrantReadNext == \A x \in Slots : Alone(x)' => \A d \in Devices : GrantOf(d)' = GrantWith(req[x], d)'
  <1>1. (\A x \in Slots : Alone(x) => \A d \in Devices : GrantOf(d) = GrantWith(req[x], d))'
    BY GrantRead, PTL
  <1> QED BY <1>1

\* The steps of the plan, said of the tables.
LEMMA PlanStutters ==
  ASSUME \A s \in Students : SeatOf(s)' = SeatOf(s), \A d \in Devices : GrantOf(d)' = GrantOf(d)
  PROVE  Keeps
  BY DEF Keeps, Plan!vars

LEMMA PlanRises ==
  ASSUME NEW s \in Students, SeatOf(s) # None, SeatOf(s)' = None,
         \A t \in Students : t # s => SeatOf(t)' = SeatOf(t), \A d \in Devices : GrantOf(d)' = GrantOf(d)
  PROVE  Keeps
  <1>1. Plan!GetsUp(s)
    BY DEF Plan!GetsUp
  <1> QED BY <1>1 DEF Keeps, Plan!Next

LEMMA PlanSits ==
  ASSUME NEW s \in Students, NEW d \in Devices, SeatOf(s) = None, \A t \in Students : SeatOf(t) # d,
         GrantOf(d) = Anyone \/ (GrantOf(d) = None /\ Roster[s] \in {None, d}),
         SeatOf(s)' = d, \A t \in Students : t # s => SeatOf(t)' = SeatOf(t),
         GrantOf(d)' = None, \A e \in Devices : e # d => GrantOf(e)' = GrantOf(e)
  PROVE  Keeps
  <1>1. Plan!SitsDown(s, d)
    BY DEF Plan!SitsDown, Plan!Free
  <1> QED BY <1>1 DEF Keeps, Plan!Next

LEMMA PlanSignsIn ==
  ASSUME NEW s \in Students, NEW d \in Devices, SeatOf(s) = d, GrantOf(d) = s,
         \A t \in Students : SeatOf(t)' = SeatOf(t),
         GrantOf(d)' = None, \A e \in Devices : e # d => GrantOf(e)' = GrantOf(e)
  PROVE  Keeps
  <1>1. Plan!SignsInAgain(s, d)
    BY DEF Plan!SignsInAgain
  <1> QED BY <1>1 DEF Keeps, Plan!Next

LEMMA PlanApproves ==
  ASSUME NEW d \in Devices, NEW who \in Students \union {Anyone},
         \/ who = Anyone /\ \A t \in Students : SeatOf(t) # d
         \/ who \in Students /\ SeatOf(who) = d,
         \A t \in Students : SeatOf(t)' = SeatOf(t),
         GrantOf(d)' = who, \A e \in Devices : e # d => GrantOf(e)' = GrantOf(e)
  PROVE  Keeps
  <1>1. Plan!Approves(d, who)
    BY DEF Plan!Approves, Plan!Free
  <1> QED BY <1>1 DEF Keeps, Plan!Next

LEMMA SeatsUnmoved ==
  ASSUME UNCHANGED <<seat, bound>>
  PROVE  \A s \in Students : SeatOf(s)' = SeatOf(s)
  BY DEF SeatOf

\* A call that is neither spending nor granting a pass leaves the approvals as they were.
LEMMA GrantsUnmoved ==
  ASSUME NEW x \in Slots, Alone(x), Alone(x)', UNCHANGED pass,
         req[x].at \notin {"spends", "grantsPass"}, req'[x].at \notin {"spends", "grantsPass"}
  PROVE  \A d \in Devices : GrantOf(d)' = GrantOf(d)
  BY GrantRead, GrantReadNext DEF GrantWith

\* A request that arrives finds the tables at rest ...
LEMMA Arrives ==
  ASSUME PlanInv, OrderInv', Calm', failures = 0, NEW x \in Slots, NEW r, Begins(x, r)
  PROVE  Calm /\ Rested /\ Alone(x) /\ Alone(x)' /\ req[x].at = "idle" /\ req'[x] = r
  <1>1. req \in [Slots -> Requests] /\ req'[x] = r /\ \A y \in Slots : y # x => req'[y] = req[y]
    BY DEF PlanInv, OrderInv, Typed, SoundReqs, Begins
  <1>2. ~ overlapped /\ \A y \in Slots : req[y].at = "idle"
    BY DEF Begins, Busy, Calm
  <1> QED BY <1>1, <1>2 DEF PlanInv, OrderInv, Alone, Calm

\* ... and one that is under way is alone with them.
LEMMA Goes ==
  ASSUME PlanInv, OrderInv', Calm', failures = 0, NEW x \in Slots, NEW place, place # "idle", NEW r,
         Moves(x, place, r)
  PROVE  /\ Calm /\ Alone(x) /\ Alone(x)' /\ req[x].at = place /\ req'[x] = r
         /\ Sits(req[x]) /\ Seating(req[x]) /\ Passing(req[x]) /\ Leads(req[x])
  <1>1. req \in [Slots -> Requests] /\ req'[x] = r /\ \A y \in Slots : y # x => req'[y] = req[y]
    BY DEF PlanInv, OrderInv, Typed, SoundReqs, Moves
  <1>2. req[x].at = place /\ (overlapped' <=> overlapped)
    BY DEF Moves
  <1>3. Calm /\ Alone(x) /\ Sits(req[x]) /\ Leads(req[x])
    BY <1>2 DEF PlanInv, OrderInv, Calm
  <1>4. Alone(x)'
    BY <1>1, <1>3 DEF Alone
  <1> QED BY <1>1, <1>2, <1>3, <1>4 DEF Sits, Calm

\* Requests that only read.
LEMMA ReadsKeep ==
  ASSUME PlanInv, OrderInv', Calm', NEW x \in Slots, NEW r, Begins(x, r), UNCHANGED tables, UNCHANGED failures,
         r.at \notin {"spends", "grantsPass"}
  PROVE  Keeps
  <1>1. failures = 0 /\ UNCHANGED <<seat, bound, pass>>
    BY DEF tables, Calm
  <1>2. Alone(x) /\ Alone(x)' /\ req[x].at = "idle" /\ req'[x] = r
    BY <1>1, Arrives
  <1>3. \A d \in Devices : GrantOf(d)' = GrantOf(d)
    BY <1>1, <1>2, GrantsUnmoved
  <1> QED BY <1>1, <1>3, SeatsUnmoved, PlanStutters

LEMMA MachineFollows ==
  ASSUME PlanInv, OrderInv', Calm', NEW x \in Slots, NEW d \in Devices, Machine(x, d)
  PROVE  Leads(req[x])' /\ Keeps
  <1>0. Typed
    BY DEF PlanInv, OrderInv
  <1>1. CASE RegisterReads(x, d)
    <2>1. UNCHANGED tables /\ UNCHANGED failures /\ Begins(x, For("creates", d)) /\ For("creates", d).at = "creates"
      BY <1>1, Fields DEF RegisterReads
    <2>2. req'[x].at = "creates"
      BY <2>1, Arrives DEF Calm
    <2> QED BY <2>1, <2>2, ReadsKeep DEF Leads
  <1>2. ASSUME NEW resubmit \in BOOLEAN, RequestEntry(x, d, resubmit) PROVE Leads(req[x])' /\ Keeps
    <2>1. UNCHANGED tables /\ UNCHANGED failures /\ Begins(x, For("asks", d)) /\ For("asks", d).at = "asks"
      BY <1>2, Fields DEF RequestEntry
    <2>2. req'[x].at = "asks"
      BY <2>1, Arrives DEF Calm
    <2> QED BY <2>1, <2>2, ReadsKeep DEF Leads
  <1>3. ASSUME NEW s \in Students, LoginChecks(x, d, s) PROVE Leads(req[x])' /\ Keeps
    <2>1. PICK row : /\ Begins(x, Spending(d, s, row))
                     /\ (pass[d] = <<>> /\ row = None) \/ (pass[d] # <<>> /\ row = Head(pass[d]))
      BY <1>3 DEF LoginChecks
    <2>2. /\ Spending(d, s, row).at = "binds" /\ Spending(d, s, row).device = d
          /\ Spending(d, s, row).student = s /\ Spending(d, s, row).spends = row
      BY Fields
    <2>3. UNCHANGED tables /\ UNCHANGED failures /\ MayLogin(d, s)
      BY <1>3 DEF LoginChecks
    <2>4. Rested /\ failures = 0 /\ req'[x] = Spending(d, s, row) /\ UNCHANGED <<seat, bound>>
      BY <2>1, <2>3, Arrives DEF Calm, tables
    <2>5. /\ req'[x].at = "binds" /\ req'[x].device = d /\ req'[x].student = s /\ req'[x].spends = row
      BY <2>2, <2>4
    <2>6. Armed /\ Matching(d) /\ seat[s] \in {None, d}
      BY <2>3, <2>4 DEF Rested, MayLogin
    <2>7. CASE row = None
      <3>1. pass[d] = <<>>
        <4>1. pass[d] \in Seq(Passes)
          BY <1>0 DEF Typed, Rows
        <4> QED BY <2>1, <2>7, <4>1, HeadTailProperties, PassAssumption
      <3>2. seat[s] = None => Roster[s] \in {None, d}
        BY <2>3, <2>6, <3>1 DEF MayLogin, Armed
      <3> QED BY <2>1, <2>2, <2>3, <2>4, <2>5, <2>7, <3>2, ReadsKeep DEF Leads
    <2>8. CASE row # None
      <3>1. Valid(d, s) /\ row = Head(pass[d])
        BY <2>1, <2>3, <2>8 DEF MayLogin
      <3>2. None \notin Students
        BY NamesAssumption
      <3>3. \/ row.who = Anyone /\ seat[s] = None
            \/ row.who = s /\ seat[s] = d
        BY <2>6, <3>1, <3>2 DEF Valid, Matching
      <3> QED BY <2>1, <2>2, <2>3, <2>4, <2>5, <2>8, <3>3, ReadsKeep DEF Leads
    <2> QED BY <2>7, <2>8
  <1> QED BY <1>1, <1>2, <1>3 DEF Machine

\* An unbinding on the way to an approval is for one that lets anyone in.
LEMMA UnbindReadsFollows ==
  ASSUME PlanInv, OrderInv', Calm', NEW x \in Slots, NEW d \in Devices, NEW i, NEW who,
         UnbindReads(x, d, i, who), UNCHANGED tables, UNCHANGED failures, i = 0 \/ who = Anyone
  PROVE  Leads(req[x])' /\ Keeps
  <1>1. PICK s \in AnyOf(SeatedAt(d)), place \in {"clearsDevice", "clearsSeat"} :
          Begins(x, Approving(place, d, s, i, who))
    BY DEF UnbindReads
  <1>2. /\ Approving(place, d, s, i, who).at = place /\ Approving(place, d, s, i, who).entry = i
        /\ Approving(place, d, s, i, who).who = who
    BY DEF Approving, Idle
  <1>3. req'[x] = Approving(place, d, s, i, who)
    BY <1>1, Arrives DEF Calm
  <1>4. Leads(req[x])'
    BY <1>2, <1>3 DEF Leads
  <1>5. Keeps
    BY <1>1, <1>2, ReadsKeep
  <1> QED BY <1>4, <1>5

LEMMA AssistantFollows ==
  ASSUME PlanInv, OrderInv', Calm', NEW x \in Slots, NEW d \in Devices, Assistant(x, d)
  PROVE  Leads(req[x])' /\ Keeps
  <1>0. Typed /\ None \notin Students
    BY NamesAssumption DEF PlanInv, OrderInv
  <1>1. CASE UnbindDevice(x, d)
    BY <1>1, UnbindReadsFollows DEF UnbindDevice
  <1>2. CASE Unregister(x, d)
    <2>1. PICK s : Begins(x, With("vacates", d, s)) \/ Begins(x, For("destroys", d))
      BY <1>2 DEF Unregister
    <2>2. UNCHANGED tables /\ UNCHANGED failures
      BY <1>2 DEF Unregister
    <2>3. With("vacates", d, s).at = "vacates" /\ For("destroys", d).at = "destroys"
      BY Fields
    <2>4. req'[x].at \in {"vacates", "destroys"}
      BY <2>1, <2>2, <2>3, Arrives DEF Calm
    <2>5. Keeps
      BY <2>1, <2>2, <2>3, ReadsKeep
    <2> QED BY <2>4, <2>5 DEF Leads
  <1>3. ASSUME NEW i \in DOMAIN entry[d], ApproveSame(x, d, i) \/ ApproveNew(x, d, i)
        PROVE  Leads(req[x])' /\ Keeps
    <2>1. UNCHANGED tables /\ UNCHANGED failures
      BY <1>3 DEF ApproveSame, ApproveNew
    <2>2. ASSUME NEW who, Begins(x, Approving("dropsPass", d, None, i, who)),
                 \/ who = Anyone /\ bound[d] = None
                 \/ who \in Students /\ bound[d] = who
          PROVE  Leads(req[x])' /\ Keeps
      <3>1. /\ Approving("dropsPass", d, None, i, who).at = "dropsPass"
            /\ Approving("dropsPass", d, None, i, who).device = d
            /\ Approving("dropsPass", d, None, i, who).who = who
        BY Fields
      <3>2. req'[x] = Approving("dropsPass", d, None, i, who) /\ bound' = bound
        BY <2>1, <2>2, Arrives DEF Calm, tables
      <3>3. Leads(req[x])'
        BY <2>2, <3>1, <3>2 DEF Leads
      <3>4. Keeps
        BY <2>1, <2>2, <3>1, ReadsKeep
      <3> QED BY <3>3, <3>4
    <2>3. CASE ApproveSame(x, d, i)
      <3>1. bound[d] \in Students
        BY <1>0, <2>3 DEF ApproveSame, Typed, Rows
      <3> QED BY <2>2, <2>3, <3>1 DEF ApproveSame
    <2>4. CASE ApproveNew(x, d, i)
      BY <2>1, <2>2, <2>4, UnbindReadsFollows DEF ApproveNew
    <2> QED BY <1>3, <2>3, <2>4
  <1> QED BY <1>1, <1>2, <1>3 DEF Assistant

LEMMA UnbindUserFollows ==
  ASSUME PlanInv, OrderInv', Calm', NEW x \in Slots, NEW s \in Students, UnbindUser(x, s)
  PROVE  Leads(req[x])' /\ Keeps
  <1>0. /\ Typed /\ None \notin Students /\ seat \in [Students -> Devices \union {None}]
        /\ UNCHANGED <<bound, pass, entry>> /\ LeavesSeat(s) /\ failures' = 0
    BY NamesAssumption DEF PlanInv, OrderInv, UnbindUser, Calm, Typed, Rows
  <1>1. failures = 0 /\ seat'[s] = None /\ \A t \in Students : t # s => seat'[t] = seat[t]
    BY <1>0, LeavesSeatOrder
  <1>2. PICK r : Begins(x, r) /\ r.at \in {"freesDevice", "idle"}
    BY Fields DEF UnbindUser
  <1>3. Rested /\ Alone(x) /\ Alone(x)' /\ req[x].at = "idle" /\ req'[x] = r
    BY <1>1, <1>2, Arrives
  <1>4. \A d \in Devices : GrantOf(d)' = GrantOf(d)
    BY <1>0, <1>2, <1>3, GrantsUnmoved
  <1>5. SeatOf(s)' = None /\ \A t \in Students : t # s => SeatOf(t)' = SeatOf(t)
    BY <1>0, <1>1 DEF SeatOf
  <1>6. Keeps
    BY <1>4, <1>5, PlanRises, PlanStutters
  <1> QED BY <1>2, <1>3, <1>6 DEF Leads

\* A call that writes neither seats nor passes.
LEMMA WritesAside ==
  ASSUME PlanInv, OrderInv', Calm', NEW x \in Slots, NEW place, Moves(x, place, Idle), UNCHANGED <<seat, bound, pass, failures>>,
         place \notin {"idle", "spends", "grantsPass"}
  PROVE  Leads(req[x])' /\ Keeps
  <1>1. Alone(x) /\ Alone(x)' /\ req[x].at = place /\ req'[x].at = "idle"
    BY Goes, Fields DEF Calm
  <1>2. \A d \in Devices : GrantOf(d)' = GrantOf(d)
    BY <1>1, GrantsUnmoved
  <1>3. Keeps
    BY <1>2, SeatsUnmoved, PlanStutters
  <1> QED BY <1>1, <1>3 DEF Leads

\* The login: nothing is seen of it before the user is written, and then its pass is gone.
LEMMA BindsDeviceFollows ==
  ASSUME PlanInv, OrderInv', Calm', NEW x \in Slots, BindsDevice(x)
  PROVE  Leads(req[x])' /\ Keeps
  <1> DEFINE d == req[x].device  s == req[x].student
  <1>1. UNCHANGED <<registered, seat, address, pass, entry, failures>> /\ failures = 0
    BY DEF BindsDevice, Calm
  <1>2. CASE Moves(x, "binds", ToSeats(x, seat[s] = d)) /\ bound' = [bound EXCEPT ![d] = s]
    <2>1. /\ Alone(x) /\ Alone(x)' /\ req[x].at = "binds" /\ req'[x] = ToSeats(x, seat[s] = d)
          /\ Seating(req[x]) /\ Leads(req[x]) /\ Typed
      BY <1>1, <1>2, Goes DEF PlanInv, OrderInv
    <2>2. /\ req'[x].at = "seats" /\ req'[x].device = d /\ req'[x].student = s /\ req'[x].spends = req[x].spends
      BY <2>1, FieldsKept
    <2>3. /\ d \in Devices /\ s \in Students /\ None \notin Students /\ None \notin Devices
          /\ bound \in [Devices -> Students \union {None}] /\ seat \in [Students -> Devices \union {None}]
      BY <2>1, NamesAssumption DEF Typed, Rows, SoundReqs, Sound, LoginPcs
    <2>4. bound[d] \in {None, s} /\ seat[s] \in {None, d} /\ \A e \in Devices : Matching(e)
      BY <2>1 DEF Seating, Between
    <2>5. Leads(req[x])'
      <3> HIDE DEF d, s
      <3>1. /\ req[x].spends = None /\ seat[s] = None => Roster[s] \in {None, d}
            /\ req[x].spends # None => \/ req[x].spends.who = Anyone /\ seat[s] = None
                                       \/ req[x].spends.who = s /\ seat[s] = d
        BY <2>1 DEF Leads, d, s
      <3> QED BY <1>1, <2>2, <3>1 DEF Leads
    <2>6. ASSUME NEW t \in Students PROVE SeatOf(t)' = SeatOf(t)
      <3>1. CASE t = s
        BY <1>1, <1>2, <2>3, <2>4, <3>1 DEF SeatOf, Matching
      <3>2. CASE t # s
        <4>1. seat[t] # d
          BY <2>3, <2>4, <3>2 DEF Matching
        <4>2. seat[t] # None => bound'[seat[t]] = bound[seat[t]]
          BY <1>2, <2>3, <4>1
        <4> QED BY <1>1, <4>2 DEF SeatOf
      <3> QED BY <3>1, <3>2
    <2>7. \A e \in Devices : GrantOf(e)' = GrantOf(e)
      BY <1>1, <2>1, <2>2, GrantsUnmoved
    <2> QED BY <2>5, <2>6, <2>7, PlanStutters
  <1>3. CASE Moves(x, "binds", Idle) /\ UNCHANGED bound
    BY <1>1, <1>3, WritesAside
  <1> QED BY <1>2, <1>3 DEF BindsDevice

LEMMA BindsSeatFollows ==
  ASSUME PlanInv, OrderInv', Calm', NEW x \in Slots, BindsSeat(x)
  PROVE  Leads(req[x])' /\ Keeps
  <1>1. UNCHANGED <<registered, bound, pass, entry, failures>> /\ failures = 0
    BY DEF BindsSeat, Calm
  <1>2. PICK r : Moves(x, "seats", r) /\ r \in {AfterSeats(x), Idle}
    BY DEF BindsSeat
  <1>3. /\ Calm /\ Alone(x) /\ Alone(x)' /\ req[x].at = "seats" /\ req'[x] = r
        /\ Seating(req[x]) /\ Passing(req[x]) /\ Leads(req[x]) /\ Typed
    BY <1>1, <1>2, Goes DEF PlanInv, OrderInv
  <1>4. PICK d \in Devices, s \in Students : d = req[x].device /\ s = req[x].student
    BY <1>3 DEF Typed, SoundReqs, Sound, LoginPcs
  <1>a. /\ None \notin Students /\ None \notin Devices
        /\ bound \in [Devices -> Students \union {None}] /\ seat \in [Students -> Devices \union {None}]
        /\ pass \in [Devices -> Seq(Passes)]
    BY <1>3, NamesAssumption DEF Typed, Rows
  <1>5. /\ d \in registered /\ bound[d] = s /\ seat[s] = IF req[x].seated THEN d ELSE None
        /\ \A t \in Students : seat[t] = d => t = s
        /\ pass[d] = IF req[x].spends = None THEN <<>> ELSE <<req[x].spends>>
    BY <1>3, <1>4 DEF Seating, Passing, LoginPcs
  <1>6. Moves(x, "seats", AfterSeats(x)) /\ req'[x] = AfterSeats(x)
    <2>1. Moves(x, "seats", AfterSeats(x))
      BY <1>4, <1>5 DEF BindsSeat
    <2> QED BY <1>1, <2>1, Goes
  <1>7. /\ req[x].spends = None => req'[x].at = "idle"
        /\ req[x].spends # None => req'[x].at = "spends" /\ req'[x].device = d
    BY <1>3, <1>4, <1>6, FieldsKept, Fields DEF AfterSeats
  <1>8. req'[x].at \in {"idle", "spends"}
    BY <1>7
  <1>9. Leads(req[x])'
    BY <1>8 DEF Leads
  \* The approvals: that of the machine is used.
  <1>10. /\ GrantOf(d) = IF req[x].spends = None THEN None ELSE req[x].spends.who
         /\ GrantOf(d)' = None /\ \A e \in Devices : e # d => GrantOf(e)' = GrantOf(e)
    <2>1. \A e \in Devices : GrantOf(e) = IF pass[e] = <<>> THEN None ELSE Head(pass[e]).who
      BY <1>3, GrantRead DEF GrantWith
    <2>2. req[x].spends # None => pass[d] # <<>> /\ Head(pass[d]) = req[x].spends
      BY <1>5
    <2>3. \A e \in Devices : GrantOf(e)' = GrantWith(req[x], e)'
      BY <1>3, GrantReadNext
    <2>4. GrantOf(d)' = None
      BY <1>1, <1>5, <1>7, <2>3 DEF GrantWith
    <2>5. \A e \in Devices : e # d => GrantOf(e)' = GrantOf(e)
      BY <1>1, <1>7, <1>8, <2>1, <2>3 DEF GrantWith
    <2> QED BY <1>5, <2>1, <2>2, <2>4, <2>5
  <1>11. /\ req[x].seated => UNCHANGED seat
         /\ ~ req[x].seated => seat' = [seat EXCEPT ![s] = d]
    BY <1>4, <1>5 DEF BindsSeat
  <1>12. CASE req[x].seated
    <2>1. seat[s] = d /\ SeatOf(s) = d /\ \A t \in Students : SeatOf(t)' = SeatOf(t)
      BY <1>1, <1>5, <1>11, <1>12, <1>a, SeatsUnmoved DEF SeatOf
    <2>2. CASE req[x].spends = None
      BY <1>9, <1>10, <2>1, <2>2, PlanStutters
    <2>3. CASE req[x].spends # None
      <3>1. req[x].spends.who = s
        BY <1>3, <1>4, <1>a, <2>1, <2>3 DEF Leads
      <3> QED BY <1>9, <1>10, <2>1, <2>3, <3>1, PlanSignsIn
    <2> QED BY <2>2, <2>3
  <1>13. CASE ~ req[x].seated
    <2>1. seat[s] = None /\ seat'[s] = d /\ \A t \in Students : t # s => seat'[t] = seat[t]
      BY <1>5, <1>11, <1>13, <1>a
    <2>2. SeatOf(s) = None /\ SeatOf(s)' = d /\ \A t \in Students : t # s => SeatOf(t)' = SeatOf(t)
      BY <1>1, <1>5, <1>a, <2>1 DEF SeatOf
    <2>3. \A t \in Students : SeatOf(t) # d
      BY <1>5, <1>a, <2>1 DEF SeatOf
    <2>4. GrantOf(d) = Anyone \/ (GrantOf(d) = None /\ Roster[s] \in {None, d})
      <3>1. CASE req[x].spends = None
        <4>1. Roster[s] \in {None, d}
          BY <1>3, <1>4, <2>1, <3>1 DEF Leads
        <4> QED BY <1>10, <3>1, <4>1
      <3>2. CASE req[x].spends # None
        <4>1. req[x].spends.who = Anyone
          BY <1>3, <1>4, <1>a, <2>1, <3>2 DEF Leads
        <4> QED BY <1>10, <3>2, <4>1
      <3> QED BY <3>1, <3>2
    <2>5. Keeps
      BY <1>10, <2>2, <2>3, <2>4, PlanSits
    <2> QED BY <1>9, <2>5
  <1> QED BY <1>12, <1>13

LEMMA SpendsPassFollows ==
  ASSUME PlanInv, OrderInv', Calm', NEW x \in Slots, SpendsPass(x)
  PROVE  Leads(req[x])' /\ Keeps
  <1> DEFINE d == req[x].device
  <1>1. /\ UNCHANGED <<seat, bound>> /\ failures = 0 /\ Moves(x, "spends", Idle)
        /\ pass' = [pass EXCEPT ![d] = RemoveFirst(@, req[x].spends)]
    BY DEF SpendsPass, Calm
  <1>2. /\ Alone(x) /\ Alone(x)' /\ req[x].at = "spends" /\ req'[x].at = "idle"
        /\ Passing(req[x]) /\ Typed
    BY <1>1, Goes, Fields DEF PlanInv, OrderInv
  <1>3. d \in Devices /\ pass \in [Devices -> Seq(Passes)]
    BY <1>2 DEF Typed, Rows, SoundReqs, Sound
  <1>4. pass[d] = IF req[x].spends = None THEN <<>> ELSE <<req[x].spends>>
    BY <1>2 DEF Passing, LoginPcs
  <1>5. pass'[d] = <<>>
    BY <1>1, <1>3, <1>4, SpentAway
  <1>6. \A e \in Devices : e # d => pass'[e] = pass[e]
    BY <1>1, <1>3
  <1>7. ASSUME NEW e \in Devices PROVE GrantOf(e)' = GrantOf(e)
    <2>1. GrantOf(e) = GrantWith(req[x], e) /\ GrantOf(e)' = GrantWith(req[x], e)'
      BY <1>2, GrantRead, GrantReadNext
    <2>2. CASE e = d
      BY <1>2, <1>5, <2>1, <2>2 DEF GrantWith
    <2>3. CASE e # d
      BY <1>2, <1>6, <2>1, <2>3 DEF GrantWith
    <2> QED BY <2>2, <2>3
  <1>8. Keeps
    BY <1>1, <1>7, SeatsUnmoved, PlanStutters
  <1> QED BY <1>2, <1>8 DEF Leads

\* What comes after a seat was cleared: nothing, or an approval that lets anyone in.
LEMMA AfterwardsLeads ==
  ASSUME Typed, NEW x \in Slots, Leads(req[x]), req[x].at \in {"clearsDevice", "clearsSeat"},
         req'[x] = Afterwards(x), bound'[req[x].device] = None
  PROVE  req'[x].at \in {"idle", "dropsPass"} /\ Leads(req[x])'
  <1>1. CASE req[x].entry = 0
    BY <1>1, Fields DEF Afterwards, Leads
  <1>2. CASE req[x].entry # 0
    <2>1. /\ req'[x].at = "dropsPass" /\ req'[x].device = req[x].device /\ req'[x].who = req[x].who
      BY <1>2, FieldsKept DEF Afterwards
    <2>2. req[x].who = Anyone
      BY <1>2 DEF Leads
    <2> QED BY <2>1, <2>2 DEF Leads
  <1> QED BY <1>1, <1>2

LEMMA ClearsDeviceFollows ==
  ASSUME PlanInv, OrderInv', Calm', NEW x \in Slots, ClearsDevice(x)
  PROVE  Leads(req[x])' /\ Keeps
  <1>1. UNCHANGED <<seat, pass, failures>> /\ failures = 0 /\ bound' = [bound EXCEPT ![req[x].device] = None]
    BY DEF ClearsDevice, Calm
  <1>2. PICK r : /\ Moves(x, "clearsDevice", r)
                 /\ (req[x].student # None /\ r = To(x, "clearsSeat")) \/ r = Afterwards(x)
    BY DEF ClearsDevice
  <1>3. /\ Alone(x) /\ Alone(x)' /\ req[x].at = "clearsDevice" /\ req'[x] = r
        /\ Seating(req[x]) /\ Leads(req[x]) /\ Typed
    BY <1>1, <1>2, Goes DEF PlanInv, OrderInv
  <1>4. PICK d \in Devices, s \in Students \union {None} : d = req[x].device /\ s = req[x].student
    BY <1>3 DEF Typed, SoundReqs, Sound, Requests
  <1>5. /\ None \notin Students /\ None \notin Devices
        /\ bound \in [Devices -> Students \union {None}] /\ seat \in [Students -> Devices \union {None}]
    BY <1>3, NamesAssumption DEF Typed, Rows
  <1>6. Matching(d) /\ \A t \in Students : seat[t] = d <=> t = s
    BY <1>3, <1>4 DEF Seating, Between
  <1>7. bound'[d] = None /\ \A e \in Devices : e # d => bound'[e] = bound[e]
    BY <1>1, <1>4, <1>5
  <1>8. req'[x].at \in {"idle", "dropsPass", "clearsSeat"} /\ Leads(req[x])'
    <2>1. CASE r = To(x, "clearsSeat")
      <3>1. req'[x].at = "clearsSeat" /\ req'[x].entry = req[x].entry /\ req'[x].who = req[x].who
        BY <1>3, <2>1, FieldsKept
      <3> QED BY <1>3, <3>1 DEF Leads
    <2>2. CASE r = Afterwards(x)
      BY <1>3, <1>4, <1>7, <2>2, AfterwardsLeads
    <2> QED BY <1>2, <2>1, <2>2
  <1>9. \A e \in Devices : GrantOf(e)' = GrantOf(e)
    BY <1>1, <1>3, <1>8, GrantsUnmoved
  <1>10. \A t \in Students : t # s => SeatOf(t)' = SeatOf(t)
    BY <1>1, <1>5, <1>6, <1>7 DEF SeatOf
  <1>11. CASE s \in Students
    <2>1. SeatOf(s) = d /\ SeatOf(s)' = None
      BY <1>1, <1>5, <1>6, <1>7, <1>11 DEF SeatOf, Matching
    <2>2. SeatOf(s) # None
      BY <1>5, <2>1
    <2>3. Keeps
      BY <1>9, <1>10, <1>11, <2>1, <2>2, PlanRises
    <2> QED BY <1>8, <2>3
  <1>12. CASE s \notin Students
    BY <1>8, <1>9, <1>10, <1>12, PlanStutters
  <1> QED BY <1>11, <1>12

LEMMA ClearsSeatFollows ==
  ASSUME PlanInv, OrderInv', Calm', NEW x \in Slots, ClearsSeat(x)
  PROVE  Leads(req[x])' /\ Keeps
  <1>1. UNCHANGED <<bound, pass, entry>> /\ LeavesSeat(req[x].student) /\ Moves(x, "clearsSeat", Afterwards(x))
        /\ failures' = 0
    BY DEF ClearsSeat, Calm
  <1>2. req[x].at = "clearsSeat" /\ Typed
    BY <1>1 DEF PlanInv, OrderInv, Moves
  <1>3. PICK d \in Devices, s \in Students : d = req[x].device /\ s = req[x].student
    BY <1>2 DEF Typed, SoundReqs, Sound
  <1>4. failures = 0 /\ seat'[s] = None /\ \A t \in Students : t # s => seat'[t] = seat[t]
    BY <1>1, <1>2, <1>3, LeavesSeatOrder
  <1>5. /\ Alone(x) /\ Alone(x)' /\ req'[x] = Afterwards(x) /\ Seating(req[x]) /\ Leads(req[x])
    BY <1>1, <1>4, Goes
  <1>6. bound[d] = None /\ \A t \in Students : seat[t] = d <=> t = s
    BY <1>2, <1>3, <1>5 DEF Seating
  <1>7. req'[x].at \in {"idle", "dropsPass"} /\ Leads(req[x])'
    BY <1>1, <1>2, <1>3, <1>5, <1>6, AfterwardsLeads
  <1>8. \A e \in Devices : GrantOf(e)' = GrantOf(e)
    BY <1>1, <1>2, <1>5, <1>7, GrantsUnmoved
  <1>9. None \notin Students
    BY NamesAssumption
  <1>10. \A t \in Students : SeatOf(t)' = SeatOf(t)
    BY <1>1, <1>4, <1>6, <1>9 DEF SeatOf
  <1> QED BY <1>7, <1>8, <1>10, PlanStutters

\* Calls that unbind a machine where nobody sits.
LEMMA EmptyUnbound ==
  ASSUME Typed, NEW d \in Devices, \A t \in Students : seat[t] # d, UNCHANGED seat, bound' = [bound EXCEPT ![d] = None]
  PROVE  \A t \in Students : SeatOf(t)' = SeatOf(t)
  <1>1. /\ bound \in [Devices -> Students \union {None}] /\ seat \in [Students -> Devices \union {None}]
    BY DEF Typed, Rows
  <1>2. \A e \in Devices : e # d => bound'[e] = bound[e]
    BY <1>1
  <1> QED BY <1>1, <1>2 DEF SeatOf

LEMMA FreesDeviceFollows ==
  ASSUME PlanInv, OrderInv', Calm', NEW x \in Slots, FreesDevice(x)
  PROVE  Leads(req[x])' /\ Keeps
  <1>1. /\ UNCHANGED <<seat, pass>> /\ failures = 0 /\ bound' = [bound EXCEPT ![req[x].device] = None]
        /\ Moves(x, "freesDevice", Idle)
    BY DEF FreesDevice, Calm
  <1>2. /\ Alone(x) /\ Alone(x)' /\ req[x].at = "freesDevice" /\ req'[x].at = "idle" /\ Seating(req[x]) /\ Typed
    BY <1>1, Goes, Fields DEF PlanInv, OrderInv
  <1>3. req[x].device \in Devices /\ \A t \in Students : seat[t] # req[x].device
    BY <1>2 DEF Seating, Typed, SoundReqs, Sound
  <1>4. \A t \in Students : SeatOf(t)' = SeatOf(t)
    BY <1>1, <1>2, <1>3, EmptyUnbound
  <1>5. \A e \in Devices : GrantOf(e)' = GrantOf(e)
    BY <1>1, <1>2, GrantsUnmoved
  <1>6. Keeps
    BY <1>4, <1>5, PlanStutters
  <1> QED BY <1>2, <1>6 DEF Leads

LEMMA VacatesFollows ==
  ASSUME PlanInv, OrderInv', Calm', NEW x \in Slots, Vacates(x)
  PROVE  Leads(req[x])' /\ Keeps
  <1>1. UNCHANGED <<bound, pass, entry>> /\ LeavesSeat(req[x].student) /\ Moves(x, "vacates", To(x, "destroys"))
        /\ failures' = 0
    BY DEF Vacates, Calm
  <1>2. req[x].at = "vacates" /\ Typed
    BY <1>1 DEF PlanInv, OrderInv, Moves
  <1>3. PICK d \in Devices, s \in Students : d = req[x].device /\ s = req[x].student
    BY <1>2 DEF Typed, SoundReqs, Sound
  <1>4. failures = 0 /\ seat'[s] = None /\ \A t \in Students : t # s => seat'[t] = seat[t]
    BY <1>1, <1>2, <1>3, LeavesSeatOrder
  <1>5. /\ Alone(x) /\ Alone(x)' /\ req'[x] = To(x, "destroys") /\ Seating(req[x])
    BY <1>1, <1>4, Goes
  <1>6. req'[x].at = "destroys"
    BY <1>2, <1>5, FieldsKept
  <1>7. Matching(d) /\ seat[s] = d
    BY <1>2, <1>3, <1>5 DEF Seating, Between
  <1>8. \A e \in Devices : GrantOf(e)' = GrantOf(e)
    BY <1>1, <1>2, <1>5, <1>6, GrantsUnmoved
  <1>9. d # None
    BY NamesAssumption
  <1>10. SeatOf(s) # None /\ SeatOf(s)' = None /\ \A t \in Students : t # s => SeatOf(t)' = SeatOf(t)
    BY <1>1, <1>4, <1>7, <1>9 DEF SeatOf, Matching
  <1>11. Keeps
    BY <1>8, <1>10, PlanRises
  <1> QED BY <1>6, <1>11 DEF Leads

LEMMA DestroysDeviceFollows ==
  ASSUME PlanInv, OrderInv', Calm', NEW x \in Slots, DestroysDevice(x)
  PROVE  Leads(req[x])' /\ Keeps
  <1>1. /\ UNCHANGED pass /\ failures = 0 /\ bound' = [bound EXCEPT ![req[x].device] = None]
        /\ seat' = [s \in Students |-> IF seat[s] = req[x].device THEN None ELSE seat[s]]
        /\ Moves(x, "destroys", Idle)
    BY DEF DestroysDevice, Calm
  <1>2. /\ Alone(x) /\ Alone(x)' /\ req[x].at = "destroys" /\ req'[x].at = "idle" /\ Seating(req[x]) /\ Typed
    BY <1>1, Goes, Fields DEF PlanInv, OrderInv
  <1>3. req[x].device \in Devices /\ \A t \in Students : seat[t] # req[x].device
    BY <1>2 DEF Seating, Typed, SoundReqs, Sound
  <1>4. seat' = seat
    BY <1>1, <1>2, <1>3 DEF Typed, Rows
  <1>5. \A t \in Students : SeatOf(t)' = SeatOf(t)
    BY <1>1, <1>2, <1>3, <1>4, EmptyUnbound
  <1>6. \A e \in Devices : GrantOf(e)' = GrantOf(e)
    BY <1>1, <1>2, GrantsUnmoved
  <1>7. Keeps
    BY <1>5, <1>6, PlanStutters
  <1> QED BY <1>2, <1>7 DEF Leads

\* The approval: it holds from the moment the pass before it is gone, and the new row only says so.
LEMMA DropsPassFollows ==
  ASSUME PlanInv, OrderInv', Calm', NEW x \in Slots, DropsPass(x)
  PROVE  Leads(req[x])' /\ Keeps
  <1>1. /\ UNCHANGED <<seat, bound>> /\ failures = 0 /\ pass' = [pass EXCEPT ![req[x].device] = <<>>]
        /\ Moves(x, "dropsPass", To(x, "grantsPass"))
    BY DEF DropsPass, Calm
  <1>2. /\ Alone(x) /\ Alone(x)' /\ req[x].at = "dropsPass" /\ req'[x] = To(x, "grantsPass")
        /\ Seating(req[x]) /\ Leads(req[x]) /\ Typed
    BY <1>1, Goes DEF PlanInv, OrderInv
  <1>3. PICK d \in Devices, who \in Holders : d = req[x].device /\ who = req[x].who
    BY <1>2 DEF Typed, SoundReqs, Sound, ApprovalPcs
  <1>4. req'[x].at = "grantsPass" /\ req'[x].device = d /\ req'[x].who = who
    BY <1>2, <1>3, FieldsKept
  <1>5. \/ who = Anyone /\ bound[d] = None
        \/ who \in Students /\ bound[d] = who
    BY <1>2, <1>3 DEF Leads
  <1>6. Leads(req[x])'
    BY <1>1, <1>4, <1>5 DEF Leads
  <1>7. \A e \in Devices : e # d => pass'[e] = pass[e]
    BY <1>1, <1>2, <1>3 DEF Typed, Rows
  <1>8. GrantOf(d)' = who /\ \A e \in Devices : e # d => GrantOf(e)' = GrantOf(e)
    <2>1. \A e \in Devices : GrantOf(e) = IF pass[e] = <<>> THEN None ELSE Head(pass[e]).who
      BY <1>2, GrantRead DEF GrantWith
    <2>2. \A e \in Devices : GrantOf(e)' = GrantWith(req[x], e)'
      BY <1>2, GrantReadNext
    <2> QED BY <1>4, <1>7, <2>1, <2>2 DEF GrantWith
  <1>9. None \notin Students /\ d # None /\ Matching(d)
    BY <1>2, NamesAssumption DEF Seating, Between
  <1>10. \/ who = Anyone /\ \A t \in Students : SeatOf(t) # d
         \/ who \in Students /\ SeatOf(who) = d
    BY <1>5, <1>9 DEF SeatOf, Matching
  <1>11. \A t \in Students : SeatOf(t)' = SeatOf(t)
    BY <1>1, SeatsUnmoved
  <1>12. Keeps
    BY <1>8, <1>10, <1>11, PlanApproves DEF Holders
  <1> QED BY <1>6, <1>12

LEMMA GrantsPassFollows ==
  ASSUME PlanInv, OrderInv', Calm', NEW x \in Slots, GrantsPass(x)
  PROVE  Leads(req[x])' /\ Keeps
  <1> DEFINE row == [entry |-> req[x].entry, who |-> req[x].who]
  <1>1. /\ UNCHANGED <<seat, bound>> /\ failures = 0 /\ pass' = [pass EXCEPT ![req[x].device] = Append(@, row)]
        /\ Moves(x, "grantsPass", To(x, "closesEntry"))
    BY DEF GrantsPass, Calm
  <1>2. /\ Alone(x) /\ Alone(x)' /\ req[x].at = "grantsPass" /\ req'[x] = To(x, "closesEntry")
        /\ Passing(req[x]) /\ Typed
    BY <1>1, Goes DEF PlanInv, OrderInv
  <1>3. PICK d \in Devices, who \in Holders : d = req[x].device /\ who = req[x].who
    BY <1>2 DEF Typed, SoundReqs, Sound, ApprovalPcs
  <1>4. req'[x].at = "closesEntry"
    BY <1>2, FieldsKept
  <1>5. pass[d] = <<>> /\ row.who = who
    BY <1>2, <1>3 DEF Passing
  <1> HIDE DEF row
  <1>6. Append(<<>>, row) # <<>> /\ Head(Append(<<>>, row)) = row
    OBVIOUS
  <1>7. /\ pass'[d] # <<>> /\ Head(pass'[d]).who = who
        /\ \A e \in Devices : e # d => pass'[e] = pass[e]
    BY <1>1, <1>2, <1>3, <1>5, <1>6 DEF Typed, Rows
  <1>8. ASSUME NEW e \in Devices PROVE GrantOf(e)' = GrantOf(e)
    <2>1. GrantOf(e) = GrantWith(req[x], e) /\ GrantOf(e)' = GrantWith(req[x], e)'
      BY <1>2, GrantRead, GrantReadNext
    <2>2. CASE e = d
      BY <1>2, <1>3, <1>4, <1>7, <2>1, <2>2 DEF GrantWith
    <2>3. CASE e # d
      BY <1>2, <1>3, <1>4, <1>7, <2>1, <2>3 DEF GrantWith
    <2> QED BY <2>2, <2>3
  <1>9. Keeps
    BY <1>1, <1>8, SeatsUnmoved, PlanStutters
  <1> QED BY <1>4, <1>9 DEF Leads

LEMMA ContinuesFollows ==
  ASSUME PlanInv, OrderInv', Calm', NEW x \in Slots, Continues(x)
  PROVE  Leads(req[x])' /\ Keeps
  <1>1. CASE CreatesDevice(x)
    BY <1>1, WritesAside DEF CreatesDevice
  <1>2. CASE CreatesEntry(x)
    BY <1>2, WritesAside DEF CreatesEntry
  <1>3. CASE ClosesEntry(x)
    BY <1>3, WritesAside DEF ClosesEntry
  <1> QED BY <1>1, <1>2, <1>3, BindsDeviceFollows, BindsSeatFollows, SpendsPassFollows, ClearsDeviceFollows,
             ClearsSeatFollows, FreesDeviceFollows, VacatesFollows, DestroysDeviceFollows, DropsPassFollows,
             GrantsPassFollows DEF Continues

\* The steps of others leave requests, seats and passes alone.
LEMMA AsideFollows ==
  ASSUME PlanInv, Calm', Switch \/ (\E d \in Devices : \E i \in DOMAIN entry[d] : Reject(d, i)) \/ UNCHANGED vars
  PROVE  (\A x \in Slots : Leads(req[x])') /\ Keeps
  <1>1. UNCHANGED <<seat, bound, pass, req, overlapped, failures>>
    BY DEF Switch, Reject, vars, tables
  <1>2. \A x \in Slots : Leads(req[x])
    BY <1>1 DEF PlanInv, Calm
  <1>3. \A x \in Slots : Leads(req[x])'
    BY <1>1, <1>2 DEF Leads
  <1>4. \A d \in Devices : GrantOf(d)' = GrantOf(d)
    BY <1>1 DEF GrantOf, At
  <1> QED BY <1>1, <1>3, <1>4, SeatsUnmoved, PlanStutters

\* A calm state follows a calm one, by a step of the plan or none.
LEMMA PlanStep == PlanInv /\ [Next]_vars => PlanInv' /\ (Calm' => Keeps)
  <1> SUFFICES ASSUME PlanInv, [Next]_vars PROVE PlanInv' /\ (Calm' => Keeps)
    OBVIOUS
  <1>1. OrderInv'
    BY OrderStep DEF PlanInv
  <1>2. ASSUME Calm' PROVE (\A x \in Slots : Leads(req[x])') /\ Keeps
    <2>1. ASSUME NEW x \in Slots, Leads(req[x])' /\ Keeps, NEW r, NEW place,
                 Begins(x, r) \/ (Moves(x, place, r) /\ place # "idle")
          PROVE  (\A y \in Slots : Leads(req[y])') /\ Keeps
      <3>1. Alone(x)'
        <4>1. CASE Begins(x, r)
          BY <1>2, <2>1, <4>1 DEF Begins, Busy, Calm, Alone, PlanInv, OrderInv, Typed, SoundReqs
        <4>2. CASE Moves(x, place, r) /\ place # "idle"
          BY <1>2, <2>1, <4>2 DEF Moves, Calm, Alone, PlanInv, OrderInv, Typed, SoundReqs
        <4> QED BY <2>1, <4>1, <4>2
      <3>2. \A y \in Slots : y # x => Leads(req[y])'
        BY <3>1 DEF Alone, Leads
      <3> QED BY <2>1, <3>2
    <2>2. ASSUME NEW x \in Slots, NEW d \in Devices, Machine(x, d) PROVE (\A y \in Slots : Leads(req[y])') /\ Keeps
      <3>1. \E r : Begins(x, r)
        BY <2>2 DEF Machine, RegisterReads, RequestEntry, LoginChecks
      <3> QED BY <1>1, <1>2, <2>1, <2>2, <3>1, MachineFollows
    <2>3. ASSUME NEW x \in Slots, NEW d \in Devices, Assistant(x, d) PROVE (\A y \in Slots : Leads(req[y])') /\ Keeps
      <3>1. \E r : Begins(x, r)
        BY <2>3 DEF Assistant, UnbindDevice, UnbindReads, Unregister, ApproveSame, ApproveNew
      <3> QED BY <1>1, <1>2, <2>1, <2>3, <3>1, AssistantFollows
    <2>4. ASSUME NEW x \in Slots, NEW s \in Students, UnbindUser(x, s) PROVE (\A y \in Slots : Leads(req[y])') /\ Keeps
      <3>1. \E r : Begins(x, r)
        BY <2>4 DEF UnbindUser
      <3> QED BY <1>1, <1>2, <2>1, <2>4, <3>1, UnbindUserFollows
    <2>5. ASSUME NEW x \in Slots, Continues(x) PROVE (\A y \in Slots : Leads(req[y])') /\ Keeps
      <3>1. \E place, r : Moves(x, place, r) /\ place # "idle"
        BY <2>5 DEF Continues, CreatesDevice, CreatesEntry, BindsDevice, BindsSeat, SpendsPass, ClearsDevice,
                    ClearsSeat, FreesDevice, Vacates, DestroysDevice, DropsPass, GrantsPass, ClosesEntry
      <3> QED BY <1>1, <1>2, <2>1, <2>5, <3>1, ContinuesFollows
    <2>6. ASSUME Crash \/ \E x \in Slots : Fails(x) PROVE FALSE
      BY <1>2, <2>6 DEF Crash, Fails, Calm, PlanInv, OrderInv, Typed, Rows
    <2> QED BY <1>2, <2>2, <2>3, <2>4, <2>5, <2>6, AsideFollows DEF Next
  <1> QED BY <1>1, <1>2 DEF PlanInv

\* Requests one after the other, none of them broken off, keep to the plan: whatever the calls write in
\* which order, what both tables say together changes as one student sits down where the roster or an
\* approval lets him, signs in again or gets up, and each approval is used once.
THEOREM TablesFollowPlan == Spec => SeatsFollowPlan
  <1>1. Init => PlanInv
    <2> SUFFICES ASSUME Init PROVE PlanInv
      OBVIOUS
    <2>1. OrderInv /\ \A x \in Slots : req[x].at = "idle"
      BY InitOrder, Fields DEF Init
    <2> QED BY <2>1 DEF PlanInv, Leads
  <1>2. Init => Plan!Init
    <2> SUFFICES ASSUME Init PROVE Plan!Init
      OBVIOUS
    <2>1. \A s \in Students : SeatOf(s) = None
      BY DEF Init, SeatOf
    <2>2. \A place, d : place # "idle" => At(place, d) = {}
      BY Fields DEF Init, At
    <2>3. \A d \in Devices : GrantOf(d) = None
      BY <2>2 DEF Init, GrantOf
    <2> QED BY <2>1, <2>3 DEF Plan!Init
  <1>3. Spec => []PlanInv
    BY <1>1, PlanStep, PTL DEF Spec
  <1> DEFINE Follows == ~ overlapped' /\ failures' = 0 => [Plan!Next]_(Plan!vars)
  <1>4. PlanInv /\ [Next]_vars => [Follows]_vars
    BY PlanStep DEF Calm, Keeps
  <1>5. Spec => [][Follows]_vars
    <2> HIDE DEF Follows
    <2> QED BY <1>3, <1>4, PTL DEF Spec
  <1> QED BY <1>2, <1>5 DEF Spec, SeatsFollowPlan

================================================================================
