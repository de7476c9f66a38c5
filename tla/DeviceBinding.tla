----------------------------- MODULE DeviceBinding -----------------------------
(***************************************************************************)
(* How machines enter the exam and students sit down at them: key          *)
(* registration, entry requests and their approval by a teaching           *)
(* assistant, login, and the ways an assistant takes a seat apart.  The    *)
(* link between machine and student is stored on both sides, in two writes *)
(* that nothing makes atomic.  Several requests may be under way, each may *)
(* stop between two writes.  One exam, between two resets; every machine   *)
(* keeps its address, so that a machine stands for its address too.        *)
(***************************************************************************)
EXTENDS Naturals, FiniteSets, Sequences, SequencesExt

CONSTANTS
  Devices,      \* machines, by deviceUuid
  Students,     \* the enrolled students, by testId
  Slots,        \* requests the server may have under way at once
  Roster,       \* student -> the machine the roster seats it at, or None
  Anyone,       \* what a pass in mode NEW_USER permits
  None,
  MaxEntries,   \* bound: entry requests of all machines
  MaxFailures   \* bound: requests or processes that stop half-way

ASSUME RosterAssumption == Roster \in [Students -> Devices \union {None}]
ASSUME NamesAssumption == None \notin Devices \union Students \union {Anyone} /\ Anyone \notin Students
ASSUME BoundsAssumption == MaxEntries \in Nat /\ MaxFailures \in Nat

VARIABLES
  open,         \* allow_device_registration
  registered,   \* machines with a row in device_key_maps
  bound,        \* DeviceKeyMap.testId
  seat,         \* User.deviceUuid
  address,      \* User.ipAddress
  pass,         \* the rows of unblocked_devices of a machine, oldest first
  entry,        \* the login_requests of a machine, oldest first
  leftover,     \* history: machines removed while a pass of theirs was left
  req,          \* the requests under way
  overlapped,   \* history: two requests were under way at once
  raced,        \* history: two logins that share a machine or a student were
  failures

tables == <<open, registered, bound, seat, address, pass, entry>>
vars == <<tables, leftover, req, overlapped, raced, failures>>

--------------------------------------------------------------------------------
Holders == {Anyone} \union Students
Passes == [entry : Nat, who : Holders]
ASSUME PassAssumption == None \notin Passes
Statuses == {"PENDING", "ALLOWED", "REJECTED"}
LoginPcs == {"binds", "seats", "spends"}
RemovalPcs == {"clearsDevice", "clearsSeat", "freesDevice", "vacates", "destroys"}
ApprovalPcs == {"dropsPass", "grantsPass", "closesEntry"}

\* A request: its next call, its machine, its student, the entry request it approves and for whom,
\* the pass a login spends, whether the user it loaded was seated there already.
Requests == [at : {"idle", "creates", "asks"} \union LoginPcs \union RemovalPcs \union ApprovalPcs,
             device : Devices \union {None}, student : Students \union {None},
             entry : Nat, who : Holders \union {None},
             spends : Passes \union {None}, seated : BOOLEAN]
Idle == [at |-> "idle", device |-> None, student |-> None, entry |-> 0, who |-> None,
         spends |-> None, seated |-> FALSE]

TypeOK ==
  /\ open \in BOOLEAN
  /\ registered \subseteq Devices
  /\ bound \in [Devices -> Students \union {None}]
  /\ \A d \in Devices \ registered : bound[d] = None
  /\ seat \in [Students -> Devices \union {None}]
  /\ address \in [Students -> Devices \union {None}]
  /\ pass \in [Devices -> Seq(Passes)]
  /\ entry \in [Devices -> Seq(Statuses)]
  /\ leftover \subseteq Devices
  /\ req \in [Slots -> Requests]
  /\ overlapped \in BOOLEAN /\ raced \in BOOLEAN
  /\ failures \in 0..MaxFailures

\* The exam has just reached INITIALIZED: students are enrolled, registration is open.
Init ==
  /\ open = TRUE
  /\ registered = {}
  /\ bound = [d \in Devices |-> None]
  /\ seat = [s \in Students |-> None]
  /\ address = Roster
  /\ pass = [d \in Devices |-> <<>>]
  /\ entry = [d \in Devices |-> <<>>]
  /\ leftover = {}
  /\ req = [x \in Slots |-> Idle]
  /\ overlapped = FALSE /\ raced = FALSE
  /\ failures = 0

Busy == {x \in Slots : req[x].at # "idle"}
Collides(d, s) == \E y \in Busy : req[y].at \in LoginPcs /\ (req[y].device = d \/ req[y].student = s)

\* A request arrives and makes its reads: what it found is in r.
Begins(x, r) ==
  /\ x \notin Busy
  /\ req' = [req EXCEPT ![x] = r]
  /\ overlapped' = (overlapped \/ Busy # {})
  /\ raced' = (raced \/ (r.at \in LoginPcs /\ Collides(r.device, r.student)))

\* The call at place returns and the next one is made.
Moves(x, place, next) ==
  /\ req[x].at = place
  /\ req' = [req EXCEPT ![x] = next]
  /\ UNCHANGED <<overlapped, raced>>
To(x, place) == [req[x] EXCEPT !.at = place]
ToSeats(x, found) == [req[x] EXCEPT !.at = "seats", !.seated = found]
For(place, d) == [Idle EXCEPT !.at = place, !.device = d]
With(place, d, s) == [Idle EXCEPT !.at = place, !.device = d, !.student = s]
Spending(d, s, row) == [Idle EXCEPT !.at = "binds", !.device = d, !.student = s, !.spends = row]
Approving(place, d, s, i, who) ==
  [Idle EXCEPT !.at = place, !.device = d, !.student = s, !.entry = i, !.who = who]
Afterwards(x) == IF req[x].entry # 0 THEN To(x, "dropsPass") ELSE Idle

--------------------------------------------------------------------------------
(* DeviceService.registerKey *)

\* The pass that findOne returns for a machine lets it register its key again.
MayRegister(d) ==
  /\ pass[d] # <<>>
  /\ LET who == Head(pass[d]).who IN
       \/ who = Anyone /\ bound[d] = None
       \/ who # Anyone /\ bound[d] = who /\ seat[who] = d

\* A machine without a row.  One that has a row gets a new key and changes nothing said here.
RegisterReads(x, d) ==
  /\ open \/ MayRegister(d)
  /\ d \notin registered
  /\ Begins(x, For("creates", d))
  /\ UNCHANGED <<tables, leftover, failures>>

\* (slip) a rejected machine asks again by itself, and so does one that waits
AsksAlways(d, resubmit) == TRUE
\* requestEntry: a machine that waits, or was rejected and only retries, does not ask again.
Asks(d, resubmit) ==
  LET latest == Len(entry[d]) IN
  \/ latest = 0
  \/ latest # 0 /\ entry[d][latest] = "ALLOWED"
  \/ latest # 0 /\ entry[d][latest] = "REJECTED" /\ resubmit

Requested == Cardinality({e \in Devices \X (1..MaxEntries) : e[2] \in DOMAIN entry[e[1]]})

RequestEntry(x, d, resubmit) ==
  /\ ~ open /\ ~ MayRegister(d)
  /\ Asks(d, resubmit) /\ Requested < MaxEntries
  /\ Begins(x, For("asks", d))
  /\ UNCHANGED <<tables, leftover, failures>>

CreatesEntry(x) ==
  /\ Moves(x, "asks", Idle)
  /\ Requested < MaxEntries
  /\ entry' = [entry EXCEPT ![req[x].device] = Append(@, "PENDING")]
  /\ UNCHANGED <<open, registered, bound, seat, address, pass, leftover, failures>>

\* A new row; if there is one meanwhile the primary key refuses it.
CreatesDevice(x) ==
  /\ Moves(x, "creates", Idle)
  /\ registered' = registered \union {req[x].device}
  /\ UNCHANGED <<open, bound, seat, address, pass, entry, leftover, failures>>

--------------------------------------------------------------------------------
(* AuthService.loginAndBind and BindingService.bindDeviceToUser *)

\* What the pass of a machine, if it has one, says of this student.
Valid(d, s) ==
  LET who == Head(pass[d]).who IN
  \/ who = Anyone /\ bound[d] = None
  \/ who = s /\ bound[d] = s

\* (slip) a student seated at another machine is let in
MayLoginTwice(d, s) ==
  /\ d \in registered /\ bound[d] \in {None, s}
  /\ \/ pass[d] # <<>> /\ Valid(d, s)
     \/ pass[d] = <<>> /\ address[s] \in {None, d}
MayLogin(d, s) ==
  /\ d \in registered
  /\ bound[d] \in {None, s} /\ seat[s] \in {None, d}
  /\ \/ pass[d] # <<>> /\ Valid(d, s)
     \/ pass[d] = <<>> /\ address[s] \in {None, d}

LoginChecks(x, d, s) ==
  /\ MayLogin(d, s)
  /\ \/ pass[d] # <<>> /\ Begins(x, Spending(d, s, Head(pass[d])))
     \/ pass[d] = <<>> /\ Begins(x, Spending(d, s, None))
  /\ UNCHANGED <<tables, leftover, failures>>

\* Machine and user are loaded again, without another check, and the machine is written.
BindsDevice(x) ==
  /\ \/ /\ req[x].device \in registered
        /\ Moves(x, "binds", ToSeats(x, seat[req[x].student] = req[x].device))
        /\ bound' = [bound EXCEPT ![req[x].device] = req[x].student]
     \/ /\ Moves(x, "binds", Idle)
        /\ req[x].device \notin registered
        /\ UNCHANGED bound
  /\ UNCHANGED <<open, registered, seat, address, pass, entry, leftover, failures>>

AfterSeats(x) == IF req[x].spends # None THEN To(x, "spends") ELSE Idle
\* The user is written, the fields that changed only; the foreign key refuses a machine without a row.
BindsSeat(x) ==
  LET d == req[x].device  s == req[x].student IN
  /\ \/ /\ req[x].seated
        /\ Moves(x, "seats", AfterSeats(x))
        /\ UNCHANGED <<seat, address>>
     \/ /\ ~ req[x].seated /\ d \in registered
        /\ Moves(x, "seats", AfterSeats(x))
        /\ seat' = [seat EXCEPT ![s] = d]
        /\ address' = [address EXCEPT ![s] = d]
     \/ /\ ~ req[x].seated /\ d \notin registered
        /\ Moves(x, "seats", Idle)
        /\ UNCHANGED <<seat, address>>
  /\ UNCHANGED <<open, registered, bound, pass, entry, leftover, failures>>

\* (slip) the pass outlives the login
KeepsPass(x) ==
  /\ Moves(x, "spends", Idle)
  /\ UNCHANGED <<tables, leftover, failures>>
SpendsPass(x) ==
  /\ Moves(x, "spends", Idle)
  /\ pass' = [pass EXCEPT ![req[x].device] = RemoveFirst(@, req[x].spends)]
  /\ leftover' = {d \in leftover : pass'[d] # <<>>}
  /\ UNCHANGED <<open, registered, bound, seat, address, entry, failures>>

--------------------------------------------------------------------------------
(* BindingService.unbindDevice, unbindUser, unregisterDevice *)

SeatedAt(d) == {s \in Students : seat[s] = d}
AnyOf(S) == IF S = {} THEN {None} ELSE S

\* (slip) unbinding clears the seat and the address with it
ForgetsAddress(s) ==
  /\ seat' = [seat EXCEPT ![s] = None]
  /\ address' = [address EXCEPT ![s] = None]
  /\ UNCHANGED failures
\* The user is written: no machine, and the address of the roster, which rosterIpFor gives up on when
\* the configuration cannot be read.
LeavesSeat(s) ==
  /\ seat' = [seat EXCEPT ![s] = None]
  /\ \/ address' = [address EXCEPT ![s] = Roster[s]] /\ UNCHANGED failures
     \/ /\ failures < MaxFailures /\ failures' = failures + 1
        /\ address' = [address EXCEPT ![s] = None]

\* unbindDevice, asked for by an assistant or (i > 0) on the way to a NEW_USER pass.
UnbindReads(x, d, i, who) ==
  \E s \in AnyOf(SeatedAt(d)) :
    \/ bound[d] # None /\ Begins(x, Approving("clearsDevice", d, s, i, who))
    \/ bound[d] = None /\ s # None /\ Begins(x, Approving("clearsSeat", d, s, i, who))

UnbindDevice(x, d) ==
  /\ d \in registered
  /\ UnbindReads(x, d, 0, None)
  /\ UNCHANGED <<tables, leftover, failures>>

\* (slip) the user is not written
ClearsDeviceOnly(x) ==
  /\ Moves(x, "clearsDevice", Afterwards(x))
  /\ bound' = [bound EXCEPT ![req[x].device] = None]
  /\ UNCHANGED <<open, registered, seat, address, pass, entry, leftover, failures>>
ClearsDevice(x) ==
  /\ \/ req[x].student # None /\ Moves(x, "clearsDevice", To(x, "clearsSeat"))
     \/ req[x].student = None /\ Moves(x, "clearsDevice", Afterwards(x))
  /\ bound' = [bound EXCEPT ![req[x].device] = None]
  /\ UNCHANGED <<open, registered, seat, address, pass, entry, leftover, failures>>

ClearsSeat(x) ==
  /\ Moves(x, "clearsSeat", Afterwards(x))
  /\ LeavesSeat(req[x].student)
  /\ UNCHANGED <<open, registered, bound, pass, entry, leftover>>

\* unbindUser: the user first, then the machine it sat at, whoever that machine is bound to by then.
UnbindUser(x, s) ==
  /\ \/ seat[s] # None /\ Begins(x, For("freesDevice", seat[s]))
     \/ seat[s] = None /\ Begins(x, Idle)
  /\ LeavesSeat(s)
  /\ UNCHANGED <<open, registered, bound, pass, entry, leftover>>

FreesDevice(x) ==
  /\ Moves(x, "freesDevice", Idle)
  /\ bound' = [bound EXCEPT ![req[x].device] = None]
  /\ UNCHANGED <<open, registered, seat, address, pass, entry, leftover, failures>>

\* unregisterDevice, behind DELETE device, re-entry and the reset of a key.
Unregister(x, d) ==
  /\ d \in registered
  /\ \E s \in AnyOf(SeatedAt(d)) :
       \/ s # None /\ Begins(x, With("vacates", d, s))
       \/ s = None /\ Begins(x, For("destroys", d))
  /\ UNCHANGED <<tables, leftover, failures>>

Vacates(x) ==
  /\ Moves(x, "vacates", To(x, "destroys"))
  /\ LeavesSeat(req[x].student)
  /\ UNCHANGED <<open, registered, bound, pass, entry, leftover>>

\* The row is deleted; the foreign key clears what still points to it, and only that.
DestroysDevice(x) ==
  LET d == req[x].device IN
  /\ Moves(x, "destroys", Idle)
  /\ registered' = registered \ {d}
  /\ bound' = [bound EXCEPT ![d] = None]
  /\ seat' = [s \in Students |-> IF seat[s] = d THEN None ELSE seat[s]]
  /\ leftover' = IF pass[d] # <<>> THEN leftover \union {d} ELSE leftover
  /\ UNCHANGED <<open, address, pass, entry, failures>>

--------------------------------------------------------------------------------
(* ConnectionController *)

Pending(d, i) == i \in DOMAIN entry[d] /\ entry[d][i] = "PENDING"

\* approveRequest for the student who sits there
ApproveSame(x, d, i) ==
  /\ Pending(d, i)
  /\ bound[d] # None /\ seat[bound[d]] = d
  /\ Begins(x, Approving("dropsPass", d, None, i, bound[d]))
  /\ UNCHANGED <<tables, leftover, failures>>

\* approveRequest for a student without a machine: the one who sits there is unbound first.
ApproveNew(x, d, i) ==
  /\ Pending(d, i)
  /\ \/ bound[d] # None /\ UnbindReads(x, d, i, Anyone)
     \/ /\ bound[d] = None
        /\ Begins(x, Approving("dropsPass", d, None, i, Anyone))
  /\ UNCHANGED <<tables, leftover, failures>>

DropsPass(x) ==
  /\ Moves(x, "dropsPass", To(x, "grantsPass"))
  /\ pass' = [pass EXCEPT ![req[x].device] = <<>>]
  /\ leftover' = leftover \ {req[x].device}
  /\ UNCHANGED <<open, registered, bound, seat, address, entry, failures>>

GrantsPass(x) ==
  /\ Moves(x, "grantsPass", To(x, "closesEntry"))
  /\ pass' = [pass EXCEPT ![req[x].device] = Append(@, [entry |-> req[x].entry, who |-> req[x].who])]
  /\ UNCHANGED <<open, registered, bound, seat, address, entry, leftover, failures>>

ClosesEntry(x) ==
  /\ Moves(x, "closesEntry", Idle)
  /\ entry' = [entry EXCEPT ![req[x].device][req[x].entry] = "ALLOWED"]
  /\ UNCHANGED <<open, registered, bound, seat, address, pass, leftover, failures>>

\* rejectRequest looks at no status and touches no pass.
Reject(d, i) ==
  /\ i \in DOMAIN entry[d]
  /\ entry' = [entry EXCEPT ![d][i] = "REJECTED"]
  /\ UNCHANGED <<open, registered, bound, seat, address, pass, leftover, req, overlapped, raced, failures>>

\* A phase change or updateSettings.
Switch ==
  /\ open' = ~ open
  /\ UNCHANGED <<registered, bound, seat, address, pass, entry, leftover, req, overlapped, raced, failures>>

--------------------------------------------------------------------------------
\* A call of x is rejected: the request is over, what it wrote stays.
Fails(x) ==
  /\ failures < MaxFailures /\ x \in Busy
  /\ req' = [req EXCEPT ![x] = Idle]
  /\ failures' = failures + 1
  /\ UNCHANGED <<tables, leftover, overlapped, raced>>

\* The process dies with every request under way.
Crash ==
  /\ failures < MaxFailures /\ Busy # {}
  /\ req' = [x \in Slots |-> Idle]
  /\ failures' = failures + 1
  /\ UNCHANGED <<tables, leftover, overlapped, raced>>

Machine(x, d) ==
  \/ RegisterReads(x, d)
  \/ \E resubmit \in BOOLEAN : RequestEntry(x, d, resubmit)
  \/ \E s \in Students : LoginChecks(x, d, s)

Assistant(x, d) ==
  \/ UnbindDevice(x, d) \/ Unregister(x, d)
  \/ \E i \in DOMAIN entry[d] : ApproveSame(x, d, i) \/ ApproveNew(x, d, i)

Continues(x) ==
  \/ CreatesDevice(x) \/ CreatesEntry(x)
  \/ BindsDevice(x) \/ BindsSeat(x) \/ SpendsPass(x)
  \/ ClearsDevice(x) \/ ClearsSeat(x) \/ FreesDevice(x) \/ Vacates(x) \/ DestroysDevice(x)
  \/ DropsPass(x) \/ GrantsPass(x) \/ ClosesEntry(x)

Next ==
  \/ \E x \in Slots :
       \/ \E d \in Devices : Machine(x, d) \/ Assistant(x, d)
       \/ \E s \in Students : UnbindUser(x, s)
       \/ Continues(x) \/ Fails(x)
  \/ \E d \in Devices : \E i \in DOMAIN entry[d] : Reject(d, i)
  \/ Switch \/ Crash

Spec == Init /\ [][Next]_vars

--------------------------------------------------------------------------------
Quiet == Busy = {}
Orderly == Quiet /\ ~ overlapped /\ failures = 0
Together(d, s) == bound[d] = s /\ seat[s] = d

\* Requests one after the other and none of them broken off leave both tables saying the same of who
\* sits where: the session check of user-crypto.middleware compares the two and would otherwise turn
\* the student away (bindDeviceToUser, unbindDevice, unbindUser, unregisterDevice).
BindingsAgree ==
  Orderly => \A d \in Devices, s \in Students : bound[d] = s <=> seat[s] = d

\* A student who sits at a machine may sign in there again, whatever passes were granted, used or
\* left over (loginAndBind after registerKey: a machine that restarts keeps its row and its student).
MayReturn ==
  Orderly => \A d \in registered, s \in Students : Together(d, s) => MayLogin(d, s)

\* Losing a seat never disarms the seat check: the address a student must come from is the roster's
\* again (rosterIpFor).
SeatCheckArmed ==
  Orderly => \A s \in Students : seat[s] = None => address[s] = Roster[s]

\* The tables agree on who sits where, and a seat that is free is guarded.
SeatsAreSound == BindingsAgree /\ SeatCheckArmed

\* "One pending request per machine" (requestEntry), even when approvals stop half-way.
OnePendingRequest ==
  ~ overlapped => \A d \in Devices : Cardinality({i \in DOMAIN entry[d] : Pending(d, i)}) <= 1

\* The gate lets back in whoever sits there, and has one request of a machine to decide on.
GateIsSound == MayReturn /\ OnePendingRequest

\* A login never takes a seat or a machine from a student who has it, even while assistants take
\* seats apart and calls break off: only two logins for the same machine or student, checked before
\* either of them writes, can do that.
NoEviction ==
  [][~ raced =>
       \A x \in Slots : req[x].at \in LoginPcs /\ req'[x] # req[x] =>
         \A d \in Devices, s \in Students : Together(d, s) => Together(d, s)']_vars

\* Who sits where, once both tables say so, and whom a machine's pass still lets in: a login has used its
\* pass as soon as the seat is written, an approval holds as soon as the pass before it is gone.
SeatOf(s) == IF seat[s] # None /\ bound[seat[s]] = s THEN seat[s] ELSE None
At(place, d) == {x \in Slots : req[x].at = place /\ req[x].device = d}
GrantOf(d) ==
  IF At("spends", d) # {} THEN None
  ELSE IF At("grantsPass", d) # {} THEN req[CHOOSE x \in At("grantsPass", d) : TRUE].who
  ELSE IF pass[d] = <<>> THEN None ELSE Head(pass[d]).who

Plan == INSTANCE SeatPlan WITH sits <- [s \in Students |-> SeatOf(s)], grant <- [d \in Devices |-> GrantOf(d)]

\* Requests one after the other, none of them broken off, keep to the plan of who sits where: what they
\* write in several tables, one row at a time, amounts to students sitting down, signing in again and
\* getting up, and to approvals that are used once (loginAndBind, binding.service.ts, approveRequest).
SeatsFollowPlan ==
  Plan!Init /\ [][~ overlapped' /\ failures' = 0 => [Plan!Next]_(Plan!vars)]_vars

\* A machine that was sent back to the gate needs a new approval: nothing it was given before lets it
\* register by itself.
RemovalEndsApproval == \A d \in leftover \ registered : ~ MayRegister(d)
================================================================================
