---------------------------- MODULE MachineSession ----------------------------
(***************************************************************************)
(* What the server believes of one machine: which socket reaches it, under *)
(* which key it is registered, what its environment check found, and       *)
(* whether its session still counts.  Every handler reads the machine's    *)
(* row, awaits, and saves only the fields that differ from what it read;   *)
(* any of its calls to the database may be rejected, and it then stops.    *)
(***************************************************************************)
EXTENDS Naturals, Sequences

CONSTANTS
  Sockets,      \* connections the machine opens, each with an id of its own
  MaxKeys,      \* bound: registrations, each with a fresh key
  MaxSequence,  \* bound: environment reports per key
  MaxRemovals,  \* bound: requests of the admin to unbind or to send back
  MaxFailures,  \* bound: rejected calls to the database
  None

ASSUME BoundsAssumption ==
  MaxKeys \in Nat \ {0} /\ MaxSequence \in Nat /\ MaxRemovals \in Nat /\ MaxFailures \in Nat

VARIABLES
  row,        \* device_key_maps: the machine's row, or None
  seat,       \* users.deviceUuid is this machine
  live,       \* sockets connected to the server
  reg, off,   \* per socket: the handlers of "register" and of "disconnect"
  reKey,      \* registerKey: its next step and its copy of the row
  removal,    \* the admin's request: what it has left to do, and what it read of row and seat
  machine,    \* the desktop client: its key and the key its token was signed with
  past,       \* history: what the properties ask about
  failures    \* calls rejected so far

session == <<row, seat, live, reg, off, reKey, removal, machine, past>>
vars == <<session, failures>>

Keys == 1..MaxKeys
Reports == [key : Keys, sequence : 1..MaxSequence]
Rows == [socket : Sockets \union {None}, online : BOOLEAN, key : Keys, bound : BOOLEAN,
         status : {"UNBOUND", "AWAITING_LOGIN", "ONLINE"},
         sequence : 0..MaxSequence, verdict : Reports \union {None}]
\* What registerKey uses of its copy of the row.
Copies == [online : BOOLEAN, bound : BOOLEAN, status : {"UNBOUND", "AWAITING_LOGIN", "ONLINE"},
           sequence : 0..MaxSequence, verdict : Reports \union {None}]
Copy(r) == [online |-> r.online, bound |-> r.bound, status |-> r.status,
            sequence |-> r.sequence, verdict |-> r.verdict]
Created(k) == [socket |-> None, online |-> TRUE, key |-> k, bound |-> FALSE,
               status |-> "UNBOUND", sequence |-> 0, verdict |-> None]

ASSUME NoneAssumption == None \notin Sockets \union Nat \union Reports \union Rows \union Copies

\* The steps of unbindDevice, unbindUser, unregisterDevice and reEntry.
Removals == {<<"look", "tell", "clear", "unseat">>, <<"seat", "look", "tell", "clear">>,
             <<"look", "tellOnline", "seat", "destroy">>,
             <<"call", "look", "tellOnline", "seat", "destroy">>}
Seen == [reached : BOOLEAN, bound : BOOLEAN, seat : BOOLEAN, status : {"UNBOUND", "AWAITING_LOGIN", "ONLINE"}]
Nothing == [reached |-> FALSE, bound |-> FALSE, seat |-> FALSE, status |-> "UNBOUND"]
NoRemoval == [left |-> <<>>, seen |-> Nothing]

\* A handler holds what it will use of its copy of the row: was the machine online, and did key and
\* binding fit the token.
Idle == [at |-> "idle", online |-> FALSE, fits |-> FALSE, signed |-> FALSE]

TypeOK ==
  /\ row \in Rows \union {None} /\ seat \in BOOLEAN /\ live \subseteq Sockets
  /\ reg \in [Sockets -> [at : {"idle", "check", "save"}, online : BOOLEAN,
                      fits : BOOLEAN, signed : BOOLEAN]]
  /\ off \in [Sockets -> [at : {"never", "open", "due", "save", "over"}, online : BOOLEAN]]
  /\ reKey \in [at : {"idle", "save"}, seen : Copies \union {None}]
  /\ removal.left \in Seq({"call", "look", "tell", "tellOnline", "seat", "unseat", "clear", "destroy"})
  /\ removal.seen \in Seen
  /\ machine \in [key : Keys, token : Keys \union {None}]
  /\ past.removals \in 0..MaxRemovals /\ past.heard \in 0..MaxSequence /\ failures \in 0..MaxFailures

Init ==
  /\ row = None /\ seat = FALSE /\ live = {}
  /\ reg = [s \in Sockets |-> Idle]
  /\ off = [s \in Sockets |-> [at |-> "never", online |-> FALSE]]
  /\ reKey = [at |-> "idle", seen |-> None] /\ removal = NoRemoval
  /\ machine = [key |-> 1, token |-> None]
  /\ past = [blurred |-> FALSE, alone |-> {}, mixed |-> FALSE, crossed |-> FALSE,
             heard |-> 0, last |-> None, orphans |-> {}, removals |-> 0]
  /\ failures = 0

--------------------------------------------------------------------------------
\* Handlers that have read the row and not saved it yet.
Registering == {s \in Sockets : reg[s].at # "idle"}
Leaving == {s \in Sockets : off[s].at = "save"}
Alone == Registering = {} /\ Leaving = {} /\ reKey.at = "idle"

\* History: a handler reads the row; it blurs what others that have read it go by.
Reads(who) == [past EXCEPT !.blurred = @ \/ ~ Alone, !.alone = IF Alone THEN who ELSE {}]
\* A register that overlaps a removal may be believed and yet not be told: crossed, until it is.
Crosses(p) == [p EXCEPT !.crossed = @ \/ removal # NoRemoval]

Registered == row # None /\ row.key = machine.key

\* forceLogout: it reaches a socket that is connected; the client drops its token.
Told(s) == IF s \in live THEN [machine EXCEPT !.token = None] ELSE machine
ToldPast(p, s) == IF s \in live THEN [p EXCEPT !.crossed = FALSE] ELSE p

\* UPDATE of the fields that differ from the copy; no row, no effect.
Writes(changes) == row' = IF row = None THEN None ELSE changes

--------------------------------------------------------------------------------
\* The machine.
Connects(s) ==
  /\ off[s].at = "never" /\ live = {}
  /\ live' = {s} /\ off' = [off EXCEPT ![s].at = "open"]
  /\ UNCHANGED <<row, seat, reg, reKey, removal, machine, past>>

\* The connection breaks; the server notices at some later time.
Drops(s) ==
  /\ s \in live /\ live' = live \ {s} /\ off' = [off EXCEPT ![s].at = "due"]
  /\ UNCHANGED <<row, seat, reg, reKey, removal, machine, past>>

\* The client starts anew: its key and its token lived in memory only.
Reopens ==
  /\ machine.key < MaxKeys /\ reKey.at = "idle"
  /\ machine' = [key |-> machine.key + 1, token |-> None]
  /\ live' = {} /\ off' = [s \in Sockets |-> IF s \in live THEN [off[s] EXCEPT !.at = "due"] ELSE off[s]]
  /\ past' = [past EXCEPT !.crossed = FALSE]
  /\ UNCHANGED <<row, seat, reg, reKey, removal>>

--------------------------------------------------------------------------------
\* MessageSocketService: "register", three steps.
RegisterReads(s) ==
  /\ s \in live /\ reg[s].at = "idle"
  /\ IF row = None
     THEN /\ machine' = Told(s) /\ past' = ToldPast(past, s) /\ UNCHANGED reg
     ELSE /\ reg' = [reg EXCEPT ![s] = [at |-> "check", online |-> row.online, signed |-> machine.token # None,
                                     fits |-> row.key = machine.token /\ row.bound]]
          /\ past' = Crosses(Reads({s})) /\ UNCHANGED machine
  /\ UNCHANGED <<row, seat, live, off, reKey, removal>>

\* (slip) the token is not looked at
BelievesAnyToken(s) == TRUE

\* The token is checked against the row read before and the student's row read now.
Believes(s) == reg[s].signed => reg[s].fits /\ seat

RegisterChecks(s) ==
  /\ reg[s].at = "check"
  /\ IF Believes(s)
     THEN reg' = [reg EXCEPT ![s] = [Idle EXCEPT !.at = "save", !.online = reg[s].online]] /\ UNCHANGED <<machine, past>>
     ELSE reg' = [reg EXCEPT ![s] = Idle] /\ machine' = Told(s) /\ past' = ToldPast(past, s)
  /\ UNCHANGED <<row, seat, live, off, reKey, removal>>

RegisterSaves(s) ==
  /\ reg[s].at = "save"
  /\ Writes([row EXCEPT !.socket = s, !.online = IF reg[s].online THEN @ ELSE TRUE])
  /\ reg' = [reg EXCEPT ![s] = Idle]
  /\ past' = [past EXCEPT !.blurred = @ /\ s \notin past.alone,
                          !.alone = {}, !.last = IF row = None THEN @ ELSE s]
  /\ UNCHANGED <<seat, live, off, reKey, removal, machine>>

\* (slip) the row is looked up by the machine, not by the socket
FindsMachine(s) == row # None

\* The row that names this socket, if there is one.
Finds(s) == row # None /\ row.socket = s

\* MessageSocketService: "disconnect", two steps.
DisconnectReads(s) ==
  /\ off[s].at = "due"
  /\ off' = [off EXCEPT ![s] = IF Finds(s) THEN [at |-> "save", online |-> row.online]
                                           ELSE [at |-> "over", online |-> FALSE]]
  /\ past' = Reads({})
  /\ UNCHANGED <<row, seat, live, reg, reKey, removal, machine>>

DisconnectSaves(s) ==
  /\ off[s].at = "save"
  /\ Writes([row EXCEPT !.socket = None, !.online = IF off[s].online THEN FALSE ELSE @])
  /\ off' = [off EXCEPT ![s] = [at |-> "over", online |-> FALSE]]
  /\ UNCHANGED <<seat, live, reg, reKey, removal, machine, past>>

--------------------------------------------------------------------------------
\* DeviceService.registerKey of a machine that may register.
KeyReads ==
  /\ reKey.at = "idle" /\ ~ Registered
  /\ reKey' = [at |-> "save", seen |-> IF row = None THEN None ELSE Copy(row)]
  /\ past' = Reads({})
  /\ UNCHANGED <<row, seat, live, reg, off, removal, machine>>

\* (slip) the verdict of the former key is kept
RenewsKeyOnly(k, seen) ==
  [row EXCEPT !.key = k, !.sequence = IF seen.sequence = 0 THEN @ ELSE 0,
     !.online = IF seen.online THEN @ ELSE TRUE]

\* The fields registerKey sets, as far as they differ from what it read.
Renews(k, seen) ==
  LET status == IF seen.bound THEN "AWAITING_LOGIN" ELSE "UNBOUND" IN
  [row EXCEPT !.key = k,
     !.sequence = IF seen.sequence = 0 THEN @ ELSE 0,
     !.verdict = IF seen.verdict = None THEN @ ELSE None,
     !.online = IF seen.online THEN @ ELSE TRUE,
     !.status = IF seen.status = status THEN @ ELSE status]

KeySaves ==
  /\ reKey.at = "save"
  /\ IF reKey.seen = None
     THEN row' = IF row = None THEN Created(machine.key) ELSE row   \* the second insert is refused
     ELSE Writes(Renews(machine.key, reKey.seen))
  /\ reKey' = [at |-> "idle", seen |-> None]
  /\ past' = [past EXCEPT !.heard = 0, !.last = IF row = None THEN None ELSE @,
                          !.mixed = row # None /\ reKey.seen # None /\ row.verdict # reKey.seen.verdict]
  /\ UNCHANGED <<seat, live, reg, off, removal, machine>>

\* (slip) a report is stored whenever its key fits
AcceptsAny(m) == row # None /\ row.key = m.key

\* recordOrderedEnvironmentReport: the condition of its UPDATE.
Accepts(m) == row # None /\ row.key = m.key /\ row.sequence < m.sequence

\* A report of any of the machine's keys arrives: late, out of order, again; or never.
ReportLands(m) ==
  /\ m.key <= machine.key
  /\ row' = IF Accepts(m) THEN [row EXCEPT !.sequence = m.sequence, !.verdict = m] ELSE row
  /\ past' = [past EXCEPT !.heard = IF row # None /\ row.key = m.key /\ @ < m.sequence THEN m.sequence ELSE @]
  /\ UNCHANGED <<seat, live, reg, off, reKey, removal, machine>>

--------------------------------------------------------------------------------
\* A student signs in at the machine (DeviceBinding has the steps of a login).
SignsIn ==
  /\ Registered /\ machine.token = None
  /\ row' = [row EXCEPT !.bound = TRUE, !.status = "ONLINE"] /\ seat' = TRUE
  /\ machine' = [machine EXCEPT !.token = machine.key]
  /\ past' = Crosses(past)
  /\ UNCHANGED <<live, reg, off, reKey, removal>>

\* The admin unbinds the machine or the student, unregisters it or sends it back.
Removes(steps) ==
  /\ removal = NoRemoval /\ past.removals < MaxRemovals
  /\ removal' = [NoRemoval EXCEPT !.left = steps]
  /\ past' = [past EXCEPT !.removals = @ + 1, !.crossed = @ \/ Registering # {}]
  /\ UNCHANGED <<row, seat, live, reg, off, reKey, machine>>

\* (slip) the machine is not told
TellsNobody(wanted) == machine' = machine /\ past' = past

\* forceLogoutDevice: it looks for the socket anew.
Tells(wanted) ==
  IF wanted /\ row # None /\ row.socket # None
  THEN machine' = Told(row.socket) /\ past' = ToldPast(past, row.socket)
  ELSE machine' = machine /\ past' = past

\* Was the machine reachable, or signed in, when the request read its row?
Wanted(step) ==
  CASE step = "tell" -> removal.seen.reached
    [] step = "tellOnline" -> removal.seen.status = "ONLINE"
    [] OTHER -> TRUE

\* The binding is cleared as far as the copy had one.
Unbinds(seen) ==
  [row EXCEPT !.bound = IF seen.bound THEN FALSE ELSE @,
              !.status = IF seen.status # "UNBOUND" THEN "UNBOUND" ELSE @]

\* What a request still needs of the two rows it reads.
Looked(left) ==
  LET needs(step) == step \in {left[i] : i \in DOMAIN left}
  IN  [reached |-> needs("tell") /\ row.socket # None, bound |-> needs("clear") /\ row.bound,
       status |-> row.status, seat |-> needs("unseat") /\ seat]

RemovalStep ==
  /\ removal.left # <<>>
  /\ LET step == Head(removal.left)
         left == Tail(removal.left)
         next == IF left = <<>> THEN NoRemoval ELSE [removal EXCEPT !.left = left] IN
     \/ /\ step = "look"
        /\ removal' = IF row = None THEN NoRemoval
                      ELSE [left |-> left, seen |-> Looked(left)]
        /\ UNCHANGED <<row, seat, machine, past>>
     \/ /\ step \in {"call", "tell", "tellOnline"} /\ removal' = next /\ Tells(Wanted(step))
        /\ UNCHANGED <<row, seat>>
     \/ /\ step = "seat" /\ removal' = next /\ seat' = FALSE /\ UNCHANGED <<row, machine, past>>
     \/ /\ step = "unseat" /\ removal' = next /\ seat' = (seat /\ ~ removal.seen.seat)
        /\ UNCHANGED <<row, machine, past>>
     \/ /\ step = "clear" /\ removal' = next /\ Writes(Unbinds(removal.seen))
        /\ UNCHANGED <<seat, machine, past>>
     \/ /\ step = "destroy" /\ removal' = next /\ row' = None
        /\ past' = [past EXCEPT !.heard = 0]
        /\ UNCHANGED <<seat, machine>>
  /\ UNCHANGED <<live, reg, off, reKey>>

\* The process restarts: handlers end, sockets drop, the rows keep what they say.
Restart ==
  /\ live' = {} /\ reg' = [s \in Sockets |-> Idle] /\ removal' = NoRemoval
  /\ reKey' = [at |-> "idle", seen |-> None]
  /\ off' = [s \in Sockets |-> IF off[s].at = "never" THEN off[s] ELSE [at |-> "over", online |-> FALSE]]
  /\ past' = [past EXCEPT !.orphans = @ \union {s \in Sockets : Finds(s) /\ off[s].at \in {"open", "due", "save"}}, !.alone = {}]
  /\ UNCHANGED <<row, seat, machine>>

--------------------------------------------------------------------------------
\* A call is rejected and the handler ends where it was.  The check of a token swallows the rejection
\* and finds the token unfit.
RegisterFails(s) ==
  /\ reg[s].at # "idle" /\ reg' = [reg EXCEPT ![s] = Idle]
  /\ IF reg[s].signed THEN machine' = Told(s) /\ past' = ToldPast(past, s)
                      ELSE UNCHANGED <<machine, past>>
  /\ UNCHANGED <<row, seat, live, off, reKey, removal>>

\* The rejection is logged: the row goes on naming the socket, and as online.
DisconnectFails(s) ==
  /\ off[s].at \in {"due", "save"}
  /\ off' = [off EXCEPT ![s] = [at |-> "over", online |-> FALSE]]
  /\ past' = [past EXCEPT !.orphans = @ \union {s}]
  /\ UNCHANGED <<row, seat, live, reg, reKey, removal, machine>>

KeyFails ==
  /\ reKey.at = "save" /\ reKey' = [at |-> "idle", seen |-> None]
  /\ UNCHANGED <<row, seat, live, reg, off, removal, machine, past>>

\* The row is written, perhaps the seat too; the machine gets no token.
SignInFails ==
  /\ Registered /\ machine.token = None
  /\ row' = [row EXCEPT !.bound = TRUE, !.status = "ONLINE"] /\ seat' \in {seat, TRUE}
  /\ UNCHANGED <<live, reg, off, reKey, removal, machine, past>>

\* unbindUser has taken the seat and not told the machine.
Untelling == {<<"look", "tell", "clear">>, <<"tell", "clear">>}

RemovalFails ==
  /\ removal # NoRemoval /\ removal' = NoRemoval
  /\ past' = [past EXCEPT !.crossed = @ \/ removal.left \in Untelling]
  /\ UNCHANGED <<row, seat, live, reg, off, reKey, machine>>

Works ==
  \/ \E s \in Sockets :
       \/ Connects(s) \/ Drops(s) \/ RegisterReads(s) \/ RegisterChecks(s) \/ RegisterSaves(s)
       \/ DisconnectReads(s) \/ DisconnectSaves(s)
  \/ Reopens \/ KeyReads \/ KeySaves \/ SignsIn \/ RemovalStep \/ Restart
  \/ \E m \in Reports : ReportLands(m)
  \/ \E steps \in Removals : Removes(steps)

Fails == KeyFails \/ SignInFails \/ RemovalFails \/ \E s \in Sockets : RegisterFails(s) \/ DisconnectFails(s)

Next ==
  \/ Works /\ UNCHANGED failures
  \/ Fails /\ failures < MaxFailures /\ failures' = failures + 1

Spec == Init /\ [][Next]_vars

--------------------------------------------------------------------------------
\* When no two handlers of the row overlapped since the last registration that ran alone: a machine
\* whose registered socket is connected is stored as online under that very socket, whatever late
\* disconnect of an older one, new key, report, removal or rejected call came between; and a socket the
\* row names is connected, has a disconnect to come, or was lost in a restart or in a disconnect whose
\* call was rejected (message-socket.service.ts register, disconnect; device.service.ts registerKey).
PresenceIsTrue ==
  ~ past.blurred /\ Alone /\ row # None =>
    /\ past.last \in live => row.socket = past.last /\ row.online
    /\ row.socket # None =>
         row.socket \in live \union past.orphans \/ off[row.socket].at = "due"

\* The stored verdict is that of the latest check among the reports that arrived under the current
\* key, in whatever order, and none if none did, unless one of the former key landed while registerKey
\* was replacing it (recordOrderedEnvironmentReport against registerKey).
VerdictIsLatest ==
  row # None /\ ~ past.mixed =>
    row.verdict = IF past.heard = 0 THEN None ELSE [key |-> row.key, sequence |-> past.heard]

\* The row is well-formed and its verdict the latest.
ReportsAreSound == TypeOK /\ VerdictIsLatest

\* A connected machine that still holds a token still has its seat: who unbinds it, unregisters it or
\* sends it back tells the machine, or its next registration does, wherever a rejected call stops them,
\* unless a registration or a login overlapped the removal, or unbindUser stopped between taking the seat
\* and telling the machine (binding.service.ts forceLogoutDevice, message-socket.service.ts register).
RemovedAreTold ==
  ~ past.blurred /\ ~ past.crossed /\ Alone /\ removal = NoRemoval /\ past.last \in live
    /\ machine.token # None => row # None /\ row.key = machine.token /\ row.bound /\ seat
================================================================================
